---- MODULE Spec2Model ----
(***************************************************************************)
(* A model of the KAG retirement backend: the Django models District,      *)
(* Section, Church, ChurchRole, Pastor and ChurchPastor, the serializers   *)
(* that validate their payloads, and the REST viewsets that serve them.    *)
(*                                                                         *)
(* The database is one variable, db: a table (a set of rows) per model and *)
(* the AutoField counter of each table.  A request handler is one action   *)
(* when nothing runs beside it; the handlers whose claims are about        *)
(* concurrent requests are also given statement by statement (one action   *)
(* per database statement), run by the processes of Procs.                 *)
(***************************************************************************)
EXTENDS Integers, Sequences, FiniteSets, TLC

VARIABLES
    db,     \* the database: tables and AutoField counters
    now,    \* the clock (days), read by auto_now_add / auto_now / timezone.now()
    last,   \* the last request served whole and its response
    pc,     \* per process: the statement a running handler is at
    loc     \* per process: the running handler's request, locals and response

vars == <<db, now, last, pc, loc>>

-----------------------------------------------------------------------------
(* Bounds of the model *)

MaxId == 2        \* rows a table is given ids for (AutoField values 1..MaxId)
MaxBatch == 2     \* longest bulk_create list enumerated item by item
MaxNow == 31      \* the clock stops here
TickDays == 31    \* days one clock step advances

-----------------------------------------------------------------------------
(* Values of a request *)

Absent == "<absent>"          \* a key the request body / query string does not carry
NotAList == "<not-a-list>"    \* a JSON value that is no list
Null == "<null>"              \* JSON null / Python None

Max(a, b) == IF a >= b THEN a ELSE b
Range(s) == {s[i] : i \in DOMAIN s}

RECURSIVE SeqsUpTo(_, _)
SeqsUpTo(S, n) ==
    IF n = 0 THEN {<<>>}
    ELSE LET shorter == SeqsUpTo(S, n - 1)
         IN  shorter \cup {Append(s, x) : s \in {t \in shorter : Len(t) = n - 1}, x \in S}

-----------------------------------------------------------------------------
(* The database *)

Tables == {"districts", "sections", "churches", "roles", "pastors", "churchPastors"}

EmptyDb ==
    [districts |-> {}, sections |-> {}, churches |-> {}, roles |-> {},
     pastors |-> {}, churchPastors |-> {},
     seq |-> [t \in Tables |-> 1]]

Ids(rows) == {r.id : r \in rows}
Row(rows, pk) == CHOOSE r \in rows : r.id = pk

\* Every table holds at most MaxId rows: the states handlers are started from.
Bounded(d) ==
    /\ Cardinality(d.districts) <= MaxId
    /\ Cardinality(d.sections) <= MaxId
    /\ Cardinality(d.churches) <= MaxId
    /\ Cardinality(d.roles) <= MaxId
    /\ Cardinality(d.pastors) <= MaxId
    /\ Cardinality(d.churchPastors) <= MaxId

Pks == 1..MaxId

\* The response of a handler served whole.
Response(op, arg, status, body) ==
    [op |-> op, arg |-> arg, status |-> status, body |-> body]

\* Response bodies are records: no body, {"detail": ...}, {"error": ...}, the
\* field errors of a serializer, or the data of a success.
NoBody == [empty |-> TRUE]
NotFound == [detail |-> "Not found."]
ErrorBody(msg) == [error |-> msg]
FieldErrors(errs) == [errors |-> errs]
Data(x) == [data |-> x]
\* An exception no handler catches: Django answers 500.
ServerError(exc) == [exception |-> exc]

NoRequest == Response("none", NoBody, 0, NoBody)

-----------------------------------------------------------------------------
(* districts/models.py, districts/serializers.py *)

DistrictNames == {"Nairobi", "Kisumu"}
LongName == "<a name of 101 characters>"
CharLen(s) == IF s = "" THEN 0 ELSE IF s = LongName THEN 101 ELSE 7

DistrictNameMaxLength == 100

\* District.name is unique=True: the table's unique index.
DistrictNameUniqueDropped(rows, name) == TRUE
DistrictNameUnique(rows, name) == \A r \in rows : r.name # name

\* A District row as Model.save() inserts it.
DistrictRow(id, name, t) ==
    [id |-> id, name |-> name, created_at |-> t, updated_at |-> t]

\* INSERT INTO districts: the unique index rejects a taken name (IntegrityError).
DistrictInsertUnchecked(d, name) == TRUE
DistrictInsertOk(d, name) == DistrictNameUnique(d.districts, name)
DistrictInsert(d, name, t) ==
    [d EXCEPT !.districts = @ \cup {DistrictRow(d.seq.districts, name, t)},
              !.seq.districts = @ + 1]

\* DistrictSerializer.is_valid(): the errors of one payload.  instance is the
\* pk of the row being updated (0 on create), partial is PATCH.
DistrictSerializerErrorsNoUnique(data, instance, rows, partial) ==
    IF data.name = Absent THEN (IF partial THEN {} ELSE {<<"name", "required">>})
    ELSE IF data.name = "" THEN {<<"name", "blank">>}
    ELSE IF CharLen(data.name) > DistrictNameMaxLength THEN {<<"name", "max_length">>}
    ELSE {}
DistrictSerializerErrors(data, instance, rows, partial) ==
    IF data.name = Absent THEN (IF partial THEN {} ELSE {<<"name", "required">>})
    ELSE IF data.name = "" THEN {<<"name", "blank">>}
    ELSE (IF CharLen(data.name) > DistrictNameMaxLength
          THEN {<<"name", "max_length">>} ELSE {})
         \cup
         (IF \E r \in rows : r.name = data.name /\ r.id # instance
          THEN {<<"name", "unique">>} ELSE {})

\* f"DIS{self.id:03d}": the digits of id, zero-padded to three.
RECURSIVE Digits(_)
Digits(n) == IF n < 10 THEN <<n>> ELSE Append(Digits(n \div 10), n % 10)
Pad3Exactly(n) == LET ds == Digits(n)
                  IN  IF Len(ds) >= 3 THEN SubSeq(ds, Len(ds) - 2, Len(ds))
                      ELSE [i \in 1..(3 - Len(ds)) |-> 0] \o ds
Pad3(n) == LET ds == Digits(n)
           IN  IF Len(ds) >= 3 THEN ds ELSE [i \in 1..(3 - Len(ds)) |-> 0] \o ds
district_id(row) == <<"DIS">> \o Pad3(row.id)

DistrictRepr(row) ==
    [id |-> row.id, district_id |-> district_id(row), name |-> row.name,
     created_at |-> row.created_at, updated_at |-> row.updated_at]

-----------------------------------------------------------------------------
(* on_delete=models.CASCADE: the rows Django's collector deletes with a parent *)

\* Section.district (sections/models.py)
SectionsOfDistrictsKept(d, ids) == {}
SectionsOfDistricts(d, ids) == {s \in d.sections : s.district \in ids}

\* Church.section (churches/models.py)
ChurchesOfSectionsKept(d, ids) == {}
ChurchesOfSections(d, ids) == {c \in d.churches : c.section \in ids}

\* ChurchPastor.church, ChurchPastor.pastor, ChurchPastor.role (churches/models.py)
ChurchPastorsOfChurches(d, ids) == {a \in d.churchPastors : a.church \in ids}
ChurchPastorsOfPastorsByChurch(d, ids) ==
    {a \in d.churchPastors : \E b \in d.churchPastors : b.pastor \in ids /\ b.church = a.church}
ChurchPastorsOfPastors(d, ids) == {a \in d.churchPastors : a.pastor \in ids}
ChurchPastorsOfRoles(d, ids) == {a \in d.churchPastors : a.role \in ids}

\* Model.delete() of the districts ids: the rows and everything that cascades.
DeleteDistricts(d, ids) ==
    LET secs == SectionsOfDistricts(d, ids)
        chus == ChurchesOfSections(d, Ids(secs))
        asgs == ChurchPastorsOfChurches(d, Ids(chus))
    IN  [d EXCEPT !.districts = {r \in @ : r.id \notin ids},
                  !.sections = @ \ secs,
                  !.churches = @ \ chus,
                  !.churchPastors = @ \ asgs]

DeleteSections(d, ids) ==
    LET chus == ChurchesOfSections(d, ids)
        asgs == ChurchPastorsOfChurches(d, Ids(chus))
    IN  [d EXCEPT !.sections = {r \in @ : r.id \notin ids},
                  !.churches = @ \ chus,
                  !.churchPastors = @ \ asgs]

DeleteChurches(d, ids) ==
    [d EXCEPT !.churches = {r \in @ : r.id \notin ids},
              !.churchPastors = @ \ ChurchPastorsOfChurches(d, ids)]

DeleteRoles(d, ids) ==
    [d EXCEPT !.roles = {r \in @ : r.id \notin ids},
              !.churchPastors = @ \ ChurchPastorsOfRoles(d, ids)]

DeletePastors(d, ids) ==
    [d EXCEPT !.pastors = {r \in @ : r.id \notin ids},
              !.churchPastors = @ \ ChurchPastorsOfPastors(d, ids)]

-----------------------------------------------------------------------------
(* districts/views.py: DistrictViewSet, each handler served whole *)

\* The frame of a handler served whole: no process is touched.
Served == UNCHANGED <<now, pc, loc>>

\* POST /api/districts/ (ModelViewSet.create)
DistrictCreate(data) ==
    /\ Bounded(db) /\ db.seq.districts <= MaxId
    /\ LET errs == DistrictSerializerErrors(data, 0, db.districts, FALSE)
       IN  IF errs # {}
           THEN /\ last' = Response("districts.create", data, 400, FieldErrors(errs))
                /\ UNCHANGED db
           ELSE IF ~DistrictInsertOk(db, data.name)
           THEN /\ last' = Response("districts.create", data, 500, ServerError("IntegrityError"))
                /\ UNCHANGED db
           ELSE /\ db' = DistrictInsert(db, data.name, now)
                /\ last' = Response("districts.create", data, 201,
                                    Data(DistrictRepr(DistrictRow(db.seq.districts, data.name, now))))
    /\ Served

\* PUT /api/districts/{pk}/ and PATCH /api/districts/{pk}/ (ModelViewSet.update)
DistrictWrite(op, pk, data, partial) ==
    /\ Bounded(db)
    /\ IF pk \notin Ids(db.districts)
       THEN /\ last' = Response(op, [pk |-> pk, data |-> data], 404, NotFound)
            /\ UNCHANGED db
       ELSE LET old == Row(db.districts, pk)
                errs == DistrictSerializerErrors(data, pk, db.districts, partial)
                new == [old EXCEPT !.name = IF data.name = Absent THEN @ ELSE data.name,
                                   !.updated_at = now]
            IN  IF errs # {}
                THEN /\ last' = Response(op, [pk |-> pk, data |-> data], 400, FieldErrors(errs))
                     /\ UNCHANGED db
                ELSE IF ~DistrictNameUnique(db.districts \ {old}, new.name)
                THEN /\ last' = Response(op, [pk |-> pk, data |-> data], 500, ServerError("IntegrityError"))
                     /\ UNCHANGED db
                ELSE /\ db' = [db EXCEPT !.districts = (@ \ {old}) \cup {new}]
                     /\ last' = Response(op, [pk |-> pk, data |-> data], 200, Data(DistrictRepr(new)))
    /\ Served

DistrictUpdate(pk, data) == DistrictWrite("districts.update", pk, data, FALSE)
DistrictPartialUpdate(pk, data) == DistrictWrite("districts.partial_update", pk, data, TRUE)

\* GET /api/districts/{pk}/ (ModelViewSet.retrieve)
DistrictRetrieve(pk) ==
    /\ Bounded(db)
    /\ IF pk \notin Ids(db.districts)
       THEN last' = Response("districts.retrieve", [pk |-> pk], 404, NotFound)
       ELSE last' = Response("districts.retrieve", [pk |-> pk], 200,
                             Data(DistrictRepr(Row(db.districts, pk))))
    /\ UNCHANGED db
    /\ Served

\* DELETE /api/districts/{pk}/ (ModelViewSet.destroy)
DistrictDestroyUnchecked(pk) ==
    /\ Bounded(db)
    /\ db' = DeleteDistricts(db, {pk})
    /\ last' = Response("districts.destroy", [pk |-> pk], 204, NoBody)
    /\ Served
DistrictDestroy(pk) ==
    /\ Bounded(db)
    /\ IF pk \notin Ids(db.districts)
       THEN /\ last' = Response("districts.destroy", [pk |-> pk], 404, NotFound)
            /\ UNCHANGED db
       ELSE /\ db' = DeleteDistricts(db, {pk})
            /\ last' = Response("districts.destroy", [pk |-> pk], 204, NoBody)
    /\ Served

\* request.data.get('<key>', []) as the handlers read it: nothing, a value
\* that is no list, or a list of payloads.
NoField == [kind |-> "absent"]
ScalarField == [kind |-> "scalar"]
ListField(items) == [kind |-> "list", items |-> items]

\* `not data or not isinstance(data, list)`
NotAListOnly(field) == field.kind # "list"
NotANonEmptyList(field) == field.kind # "list" \/ field.items = <<>>

MAX_BULK_CREATE == 10

\* len(districts_data) > MAX_BULK_CREATE
DistrictBulkTooLongOff(items) == FALSE
DistrictBulkTooLong(items) == Len(items) > MAX_BULK_CREATE

\* ListSerializer.is_valid(): the errors of each item, in order, each item
\* validated against the stored rows alone (never against the other items).
DistrictListErrorsFirstOnly(items, rows) ==
    [i \in DOMAIN items |->
        IF i = 1 THEN DistrictSerializerErrors(items[i], 0, rows, FALSE) ELSE {}]
DistrictListErrors(items, rows) ==
    [i \in DOMAIN items |-> DistrictSerializerErrors(items[i], 0, rows, FALSE)]

NoErrors(errs) == \A i \in DOMAIN errs : errs[i] = {}

\* ListSerializer.save(): child.create() item by item from position i; stops
\* at the first IntegrityError.  [ok, db, made]
RECURSIVE DistrictSaveFrom(_, _, _, _, _)
DistrictSaveFrom(d, items, i, t, made) ==
    IF i > Len(items) THEN [ok |-> TRUE, db |-> d, made |-> made]
    ELSE IF ~DistrictInsertOk(d, items[i].name) THEN [ok |-> FALSE, db |-> d, made |-> made]
    ELSE DistrictSaveFrom(DistrictInsert(d, items[i].name, t), items, i + 1, t,
                          Append(made, DistrictRepr(DistrictRow(d.seq.districts, items[i].name, t))))

\* with transaction.atomic(): serializer.save() -- the rows of a failed save
\* are rolled back with the transaction.
DistrictAtomicSaveNoRollback(d, items, t) == DistrictSaveFrom(d, items, 1, t, <<>>)
DistrictAtomicSave(d, items, t) ==
    LET r == DistrictSaveFrom(d, items, 1, t, <<>>)
    IN  IF r.ok THEN r ELSE [ok |-> FALSE, db |-> d, made |-> <<>>]

\* POST /api/districts/bulk_create/
DistrictBulkCreate(field) ==
    /\ Bounded(db) /\ db.seq.districts <= MaxId
    /\ IF NotANonEmptyList(field)
       THEN /\ last' = Response("districts.bulk_create", field, 400,
                                ErrorBody("districts field must be a non-empty list"))
            /\ UNCHANGED db
       ELSE IF DistrictBulkTooLong(field.items)
       THEN /\ last' = Response("districts.bulk_create", field, 400,
                                [error |-> "Cannot create more than", limit |-> MAX_BULK_CREATE,
                                 provided |-> Len(field.items)])
            /\ UNCHANGED db
       ELSE LET errs == DistrictListErrors(field.items, db.districts)
                saved == DistrictAtomicSave(db, field.items, now)
            IN  IF ~NoErrors(errs)
                THEN /\ last' = Response("districts.bulk_create", field, 400, FieldErrors(errs))
                     /\ UNCHANGED db
                ELSE IF ~saved.ok
                THEN /\ last' = Response("districts.bulk_create", field, 400,
                                     ErrorBody("Duplicate district name or database constraint violation"))
                     /\ db' = saved.db
                ELSE /\ last' = Response("districts.bulk_create", field, 201, Data(saved.made))
                     /\ db' = saved.db
    /\ Served

-----------------------------------------------------------------------------
(* pastors/models.py, pastors/serializers.py *)

GENDER_CHOICES == {"Male", "Female"}
RANK_CHOICES == {"ArchBishop", "Bishop", "Presbyter", "Reverend", "Pastor"}
STATUS_CHOICES == {"active", "suspended", "retired", "deceased"}

\* A date is [y, m, d]; NoneDate is None in a nullable DateField.
Date(y, m, d) == [y |-> y, m |-> m, d |-> d]
NoneDate == Date(0, 0, 0)
DaysIn(y, m) ==
    IF m \in {4, 6, 9, 11} THEN 30
    ELSE IF m = 2 THEN (IF (y % 4 = 0 /\ y % 100 # 0) \/ y % 400 = 0 THEN 29 ELSE 28)
    ELSE 31
\* DateField.to_internal_value: a string that parses as a calendar date.
IsDate(x) == x.y >= 1 /\ x.m \in 1..12 /\ x.d >= 1 /\ x.d <= DaysIn(x.y, x.m)

\* A phone number is its characters.  phone_regex = r'^\+2547[0-9]{8}$'
DigitChars == {"0", "1", "2", "3", "4", "5", "6", "7", "8", "9"}
PhonePrefix == <<"+", "2", "5", "4", "7">>
PhoneRegexAny(ph) == TRUE
PhoneRegex(ph) ==
    /\ Len(ph) = Len(PhonePrefix) + 8
    /\ \A i \in 1..Len(PhonePrefix) : ph[i] = PhonePrefix[i]
    /\ \A i \in (Len(PhonePrefix) + 1)..Len(ph) : ph[i] \in DigitChars
PhoneMaxLength == 13
FullNameMaxLength == 150

\* A payload is a record of the keys the request carries.
Has(data, key) == key \in DOMAIN data

\* PastorSerializer.is_valid(): the errors of one payload (partial is PATCH).
PastorSerializerErrors(data, partial) ==
    (IF ~Has(data, "full_name") THEN (IF partial THEN {} ELSE {<<"full_name", "required">>})
     ELSE IF data.full_name = "" THEN {<<"full_name", "blank">>}
     ELSE IF CharLen(data.full_name) > FullNameMaxLength THEN {<<"full_name", "max_length">>}
     ELSE {})
    \cup
    (IF ~Has(data, "gender") THEN (IF partial THEN {} ELSE {<<"gender", "required">>})
     ELSE IF data.gender \notin GENDER_CHOICES THEN {<<"gender", "invalid_choice">>}
     ELSE {})
    \cup
    (IF ~Has(data, "pastor_rank") THEN (IF partial THEN {} ELSE {<<"pastor_rank", "required">>})
     ELSE IF data.pastor_rank \notin RANK_CHOICES THEN {<<"pastor_rank", "invalid_choice">>}
     ELSE {})
    \cup
    (IF ~Has(data, "date_of_birth") THEN (IF partial THEN {} ELSE {<<"date_of_birth", "required">>})
     ELSE IF data.date_of_birth = NoneDate THEN {<<"date_of_birth", "null">>}
     ELSE IF ~IsDate(data.date_of_birth) THEN {<<"date_of_birth", "invalid">>}
     ELSE {})
    \cup
    (IF ~Has(data, "phone_number") THEN (IF partial THEN {} ELSE {<<"phone_number", "required">>})
     ELSE IF data.phone_number = <<>> THEN {<<"phone_number", "blank">>}
     ELSE (IF Len(data.phone_number) > PhoneMaxLength
           THEN {<<"phone_number", "max_length">>} ELSE {})
          \cup
          (IF ~PhoneRegex(data.phone_number) THEN {<<"phone_number", "invalid">>} ELSE {}))
    \cup
    (IF Has(data, "start_of_service")
        /\ data.start_of_service # NoneDate /\ ~IsDate(data.start_of_service)
     THEN {<<"start_of_service", "invalid">>} ELSE {})
    \cup
    (IF Has(data, "status") /\ data.status \notin STATUS_CHOICES
     THEN {<<"status", "invalid_choice">>} ELSE {})

\* The value a validated payload gives a column, or the column's default.
Field(data, key, default) == IF Has(data, key) THEN data[key] ELSE default

\* Pastor.objects.create(**validated_data): a validated payload carries every
\* required key; the optional ones take the column's default.
PastorRow(id, data, t) ==
    [id |-> id,
     full_name |-> Field(data, "full_name", ""),
     gender |-> Field(data, "gender", ""),
     pastor_rank |-> Field(data, "pastor_rank", ""),
     national_id |-> Field(data, "national_id", Null),
     date_of_birth |-> Field(data, "date_of_birth", NoneDate),
     phone_number |-> Field(data, "phone_number", <<>>),
     start_of_service |-> Field(data, "start_of_service", NoneDate),
     status |-> Field(data, "status", "active"),
     created_at |-> t,
     updated_at |-> t]

PastorInsert(d, data, t) ==
    [d EXCEPT !.pastors = @ \cup {PastorRow(d.seq.pastors, data, t)},
              !.seq.pastors = @ + 1]

pastor_id(row) == <<"PAS">> \o Pad3(row.id)

PastorRepr(row) == row @@ [pastor_id |-> pastor_id(row)]

\* PastorViewSet.get_queryset(): the rows the query string's rank, status
\* and gender leave.
PastorQueryset(rows, q) ==
    {r \in rows :
        /\ Has(q, "rank") => r.pastor_rank = q.rank
        /\ Has(q, "status") => r.status = q.status
        /\ Has(q, "gender") => r.gender = q.gender}

NoQuery == [none |-> TRUE]

\* DjangoFilterBackend over filterset_fields = ['gender', 'pastor_rank', 'status']:
\* the rows every given filter keeps.
PastorFiltersetAny(rows, q) ==
    {r \in rows :
        \/ Has(q, "pastor_rank") /\ r.pastor_rank = q.pastor_rank
        \/ Has(q, "status") /\ r.status = q.status
        \/ Has(q, "gender") /\ r.gender = q.gender}
PastorFilterset(rows, q) ==
    {r \in rows :
        /\ Has(q, "pastor_rank") => r.pastor_rank = q.pastor_rank
        /\ Has(q, "status") => r.status = q.status
        /\ Has(q, "gender") => r.gender = q.gender}

\* The filterset's form: a filter over a column with choices takes a choice.
PastorFiltersetErrors(q) ==
    (IF Has(q, "pastor_rank") /\ q.pastor_rank \notin RANK_CHOICES
     THEN {<<"pastor_rank", "invalid_choice">>} ELSE {})
    \cup
    (IF Has(q, "status") /\ q.status \notin STATUS_CHOICES
     THEN {<<"status", "invalid_choice">>} ELSE {})
    \cup
    (IF Has(q, "gender") /\ q.gender \notin GENDER_CHOICES
     THEN {<<"gender", "invalid_choice">>} ELSE {})

\* GenericAPIView.get_object(): the lookup by key runs over
\* filter_queryset(get_queryset()), so over the rows both get_queryset() and
\* DjangoFilterBackend leave; a filterset that is not valid raises first.
PastorObjectsAll(rows, q) == PastorFilterset(rows, q)
PastorObjects(rows, q) == PastorFilterset(PastorQueryset(rows, q), q)

-----------------------------------------------------------------------------
(* pastors/views.py: PastorViewSet, each handler served whole *)

\* POST /api/pastors/
PastorCreate(data) ==
    /\ Bounded(db) /\ db.seq.pastors <= MaxId
    /\ LET errs == PastorSerializerErrors(data, FALSE)
       IN  IF errs # {}
           THEN /\ last' = Response("pastors.create", data, 400, FieldErrors(errs))
                /\ UNCHANGED db
           ELSE /\ db' = PastorInsert(db, data, now)
                /\ last' = Response("pastors.create", data, 201,
                                    Data(PastorRepr(PastorRow(db.seq.pastors, data, now))))
    /\ Served

\* GET /api/pastors/{pk}/
PastorRetrieve(pk, q) ==
    /\ Bounded(db)
    /\ IF PastorFiltersetErrors(q) # {}
       THEN last' = Response("pastors.retrieve", [pk |-> pk, q |-> q], 400,
                             FieldErrors(PastorFiltersetErrors(q)))
       ELSE IF pk \notin Ids(PastorObjects(db.pastors, q))
       THEN last' = Response("pastors.retrieve", [pk |-> pk, q |-> q], 404, NotFound)
       ELSE last' = Response("pastors.retrieve", [pk |-> pk, q |-> q], 200,
                             Data(PastorRepr(Row(db.pastors, pk))))
    /\ UNCHANGED db
    /\ Served

\* DELETE /api/pastors/{pk}/
PastorDestroy(pk, q) ==
    /\ Bounded(db)
    /\ IF PastorFiltersetErrors(q) # {}
       THEN /\ last' = Response("pastors.destroy", [pk |-> pk, q |-> q], 400,
                                FieldErrors(PastorFiltersetErrors(q)))
            /\ UNCHANGED db
       ELSE IF pk \notin Ids(PastorObjects(db.pastors, q))
       THEN /\ last' = Response("pastors.destroy", [pk |-> pk, q |-> q], 404, NotFound)
            /\ UNCHANGED db
       ELSE /\ db' = DeletePastors(db, {pk})
            /\ last' = Response("pastors.destroy", [pk |-> pk, q |-> q], 204, NoBody)
    /\ Served

\* ListSerializer.is_valid() over pastor payloads.
PastorListErrorsFirstOnly(items) ==
    [i \in DOMAIN items |-> IF i = 1 THEN PastorSerializerErrors(items[i], FALSE) ELSE {}]
PastorListErrors(items) ==
    [i \in DOMAIN items |-> PastorSerializerErrors(items[i], FALSE)]

\* ListSerializer.save(): Pastor.objects.create() item by item from position
\* i, each INSERT committed on its own (no transaction is opened).
\* (No INSERT of a pastor can fail, so the loop is the union of its rows.)
PastorSaveFirstOnly(d, items, i, t) ==
    [d EXCEPT !.pastors = @ \cup {PastorRow(d.seq.pastors, items[i], t)},
              !.seq.pastors = @ + 1]
PastorSaveFrom(d, items, i, t) ==
    [d EXCEPT !.pastors = @ \cup {PastorRow(d.seq.pastors + k - i, items[k], t) : k \in i..Len(items)},
              !.seq.pastors = @ + Max(0, Len(items) - i + 1)]

PastorMade(d, items, t) ==
    [i \in DOMAIN items |-> PastorRepr(PastorRow(d.seq.pastors + i - 1, items[i], t))]

\* POST /api/pastors/bulk_create/
PastorBulkCreate(field) ==
    /\ Bounded(db) /\ db.seq.pastors <= MaxId
    /\ IF NotANonEmptyList(field)
       THEN /\ last' = Response("pastors.bulk_create", field, 400,
                                ErrorBody("pastors field must be a non-empty list"))
            /\ UNCHANGED db
       ELSE LET errs == PastorListErrors(field.items)
            IN  IF ~NoErrors(errs)
                THEN /\ last' = Response("pastors.bulk_create", field, 400, FieldErrors(errs))
                     /\ UNCHANGED db
                ELSE /\ last' = Response("pastors.bulk_create", field, 201,
                                         Data(PastorMade(db, field.items, now)))
                     /\ db' = PastorSaveFrom(db, field.items, 1, now)
    /\ Served

-----------------------------------------------------------------------------
(* sections/models.py, sections/serializers.py, sections/views.py *)

SectionNameMaxLength == 100

\* SectionSerializer.is_valid(): the errors of one payload; district is a
\* PrimaryKeyRelatedField over District.objects.all().
SectionSerializerErrors(data, districts, partial) ==
    (IF ~Has(data, "name") THEN (IF partial THEN {} ELSE {<<"name", "required">>})
     ELSE IF data.name = "" THEN {<<"name", "blank">>}
     ELSE IF CharLen(data.name) > SectionNameMaxLength THEN {<<"name", "max_length">>}
     ELSE {})
    \cup
    (IF ~Has(data, "district") THEN (IF partial THEN {} ELSE {<<"district", "required">>})
     ELSE IF data.district \notin Ids(districts) THEN {<<"district", "does_not_exist">>}
     ELSE {})

SectionRow(id, data, t) ==
    [id |-> id, district |-> Field(data, "district", 0), name |-> Field(data, "name", ""),
     created_at |-> t, updated_at |-> t]

\* The foreign key constraint of sections.district_id at INSERT.
SectionInsertOk(d, data) == Field(data, "district", 0) \in Ids(d.districts)
SectionInsert(d, data, t) ==
    [d EXCEPT !.sections = @ \cup {SectionRow(d.seq.sections, data, t)},
              !.seq.sections = @ + 1]

section_id(row) == <<"SEC">> \o Pad3(row.id)

\* SectionSerializer.data: the row, its section_id and the parent District inlined.
SectionRepr(row, districts) ==
    row @@ [section_id |-> section_id(row),
            district_name |-> Row(districts, row.district).name,
            district_details |-> DistrictRepr(Row(districts, row.district))]

\* POST /api/sections/
SectionCreate(data) ==
    /\ Bounded(db) /\ db.seq.sections <= MaxId
    /\ LET errs == SectionSerializerErrors(data, db.districts, FALSE)
       IN  IF errs # {}
           THEN /\ last' = Response("sections.create", data, 400, FieldErrors(errs))
                /\ UNCHANGED db
           ELSE /\ db' = SectionInsert(db, data, now)
                /\ last' = Response("sections.create", data, 201,
                                    Data(SectionRepr(SectionRow(db.seq.sections, data, now),
                                                     db.districts)))
    /\ Served

\* PUT /api/sections/{pk}/ and PATCH /api/sections/{pk}/ (ModelViewSet.update)
SectionWrite(op, pk, data, partial) ==
    /\ Bounded(db)
    /\ LET arg == [pk |-> pk, data |-> data]
       IN  IF pk \notin Ids(db.sections)
           THEN /\ last' = Response(op, arg, 404, NotFound)
                /\ UNCHANGED db
           ELSE LET old == Row(db.sections, pk)
                    errs == SectionSerializerErrors(data, db.districts, partial)
                    new == [old EXCEPT !.district = Field(data, "district", @),
                                       !.name = Field(data, "name", @),
                                       !.updated_at = now]
                IN  IF errs # {}
                    THEN /\ last' = Response(op, arg, 400, FieldErrors(errs))
                         /\ UNCHANGED db
                    ELSE /\ db' = [db EXCEPT !.sections = (@ \ {old}) \cup {new}]
                         /\ last' = Response(op, arg, 200, Data(SectionRepr(new, db.districts)))
    /\ Served

SectionUpdate(pk, data) == SectionWrite("sections.update", pk, data, FALSE)
SectionPartialUpdate(pk, data) == SectionWrite("sections.partial_update", pk, data, TRUE)

\* GET /api/sections/{pk}/ (ModelViewSet.retrieve)
SectionRetrieve(pk) ==
    /\ Bounded(db)
    /\ IF pk \notin Ids(db.sections)
       THEN last' = Response("sections.retrieve", [pk |-> pk], 404, NotFound)
       ELSE last' = Response("sections.retrieve", [pk |-> pk], 200,
                             Data(SectionRepr(Row(db.sections, pk), db.districts)))
    /\ UNCHANGED db
    /\ Served

\* DELETE /api/sections/{pk}/
SectionDestroy(pk) ==
    /\ Bounded(db)
    /\ IF pk \notin Ids(db.sections)
       THEN /\ last' = Response("sections.destroy", [pk |-> pk], 404, NotFound)
            /\ UNCHANGED db
       ELSE /\ db' = DeleteSections(db, {pk})
            /\ last' = Response("sections.destroy", [pk |-> pk], 204, NoBody)
    /\ Served

SectionListErrorsFirstOnly(items, districts) ==
    [i \in DOMAIN items |->
        IF i = 1 THEN SectionSerializerErrors(items[i], districts, FALSE) ELSE {}]
SectionListErrors(items, districts) ==
    [i \in DOMAIN items |-> SectionSerializerErrors(items[i], districts, FALSE)]

\* ListSerializer.save(): Section.objects.create() item by item from position
\* i, each INSERT committed on its own (no transaction is opened).
\* A request served whole finds every district it validated still there.
RECURSIVE SectionSaveFrom(_, _, _, _)
SectionSaveFrom(d, items, i, t) ==
    IF i > Len(items) \/ ~SectionInsertOk(d, items[i]) THEN d
    ELSE SectionSaveFrom(SectionInsert(d, items[i], t), items, i + 1, t)

SectionMade(d, items, t) ==
    [i \in DOMAIN items |->
        SectionRepr(SectionRow(d.seq.sections + i - 1, items[i], t), d.districts)]

\* POST /api/sections/bulk_create/
SectionBulkCreate(field) ==
    /\ Bounded(db) /\ db.seq.sections <= MaxId
    /\ IF NotANonEmptyList(field)
       THEN /\ last' = Response("sections.bulk_create", field, 400,
                                ErrorBody("sections field must be a non-empty list"))
            /\ UNCHANGED db
       ELSE LET errs == SectionListErrors(field.items, db.districts)
            IN  IF ~NoErrors(errs)
                THEN /\ last' = Response("sections.bulk_create", field, 400, FieldErrors(errs))
                     /\ UNCHANGED db
                ELSE /\ last' = Response("sections.bulk_create", field, 201,
                                         Data(SectionMade(db, field.items, now)))
                     /\ db' = SectionSaveFrom(db, field.items, 1, now)
    /\ Served

-----------------------------------------------------------------------------
(* churches/models.py, churches/serializers.py, churches/views.py *)

ChurchNameMaxLength == 150
RoleNameMaxLength == 50

ROLE_CHOICES ==
    {"Senior Pastor", "Assistant Pastor", "Youth Pastor", "Missions Pastor",
     "Associate Minister"}

\* ChurchSerializer.is_valid()
ChurchSerializerErrors(data, sections, partial) ==
    (IF ~Has(data, "section") THEN (IF partial THEN {} ELSE {<<"section", "required">>})
     ELSE IF data.section \notin Ids(sections) THEN {<<"section", "does_not_exist">>}
     ELSE {})
    \cup
    (IF ~Has(data, "church_name") THEN (IF partial THEN {} ELSE {<<"church_name", "required">>})
     ELSE IF data.church_name = "" THEN {<<"church_name", "blank">>}
     ELSE IF CharLen(data.church_name) > ChurchNameMaxLength THEN {<<"church_name", "max_length">>}
     ELSE {})

ChurchRow(id, data, t) ==
    [id |-> id, section |-> Field(data, "section", 0),
     church_name |-> Field(data, "church_name", ""),
     location |-> Field(data, "location", ""),
     created_at |-> t, updated_at |-> t]

ChurchInsert(d, data, t) ==
    [d EXCEPT !.churches = @ \cup {ChurchRow(d.seq.churches, data, t)},
              !.seq.churches = @ + 1]

church_id(row) == <<"CHU">> \o Pad3(row.id)

ChurchRepr(row, sections) ==
    row @@ [church_id |-> church_id(row), section_name |-> Row(sections, row.section).name]

\* POST /api/churches/
ChurchCreate(data) ==
    /\ Bounded(db) /\ db.seq.churches <= MaxId
    /\ LET errs == ChurchSerializerErrors(data, db.sections, FALSE)
       IN  IF errs # {}
           THEN /\ last' = Response("churches.create", data, 400, FieldErrors(errs))
                /\ UNCHANGED db
           ELSE /\ db' = ChurchInsert(db, data, now)
                /\ last' = Response("churches.create", data, 201,
                                    Data(ChurchRepr(ChurchRow(db.seq.churches, data, now),
                                                    db.sections)))
    /\ Served

\* PUT /api/churches/{pk}/ and PATCH /api/churches/{pk}/ (ModelViewSet.update)
ChurchWrite(op, pk, data, partial) ==
    /\ Bounded(db)
    /\ LET arg == [pk |-> pk, data |-> data]
       IN  IF pk \notin Ids(db.churches)
           THEN /\ last' = Response(op, arg, 404, NotFound)
                /\ UNCHANGED db
           ELSE LET old == Row(db.churches, pk)
                    errs == ChurchSerializerErrors(data, db.sections, partial)
                    new == [old EXCEPT !.section = Field(data, "section", @),
                                       !.church_name = Field(data, "church_name", @),
                                       !.location = Field(data, "location", @),
                                       !.updated_at = now]
                IN  IF errs # {}
                    THEN /\ last' = Response(op, arg, 400, FieldErrors(errs))
                         /\ UNCHANGED db
                    ELSE /\ db' = [db EXCEPT !.churches = (@ \ {old}) \cup {new}]
                         /\ last' = Response(op, arg, 200, Data(ChurchRepr(new, db.sections)))
    /\ Served

ChurchUpdate(pk, data) == ChurchWrite("churches.update", pk, data, FALSE)
ChurchPartialUpdate(pk, data) == ChurchWrite("churches.partial_update", pk, data, TRUE)

\* GET /api/churches/{pk}/ (ModelViewSet.retrieve)
ChurchRetrieve(pk) ==
    /\ Bounded(db)
    /\ IF pk \notin Ids(db.churches)
       THEN last' = Response("churches.retrieve", [pk |-> pk], 404, NotFound)
       ELSE last' = Response("churches.retrieve", [pk |-> pk], 200,
                             Data(ChurchRepr(Row(db.churches, pk), db.sections)))
    /\ UNCHANGED db
    /\ Served

\* DELETE /api/churches/{pk}/
ChurchDestroy(pk) ==
    /\ Bounded(db)
    /\ IF pk \notin Ids(db.churches)
       THEN /\ last' = Response("churches.destroy", [pk |-> pk], 404, NotFound)
            /\ UNCHANGED db
       ELSE /\ db' = DeleteChurches(db, {pk})
            /\ last' = Response("churches.destroy", [pk |-> pk], 204, NoBody)
    /\ Served

\* ChurchRoleSerializer.is_valid(): role_name is a choice and unique.
ChurchRoleSerializerErrors(data, instance, rows, partial) ==
    IF ~Has(data, "role_name") THEN (IF partial THEN {} ELSE {<<"role_name", "required">>})
    ELSE IF data.role_name \notin ROLE_CHOICES THEN {<<"role_name", "invalid_choice">>}
    ELSE IF \E r \in rows : r.role_name = data.role_name /\ r.id # instance
    THEN {<<"role_name", "unique">>}
    ELSE {}

ChurchRoleRow(id, data, t) ==
    [id |-> id, role_name |-> Field(data, "role_name", ""), created_at |-> t, updated_at |-> t]

role_id(row) == <<"ROL">> \o Pad3(row.id)

ChurchRoleInsert(d, data, t) ==
    [d EXCEPT !.roles = @ \cup {ChurchRoleRow(d.seq.roles, data, t)},
              !.seq.roles = @ + 1]

\* POST /api/church-roles/
ChurchRoleCreate(data) ==
    /\ Bounded(db) /\ db.seq.roles <= MaxId
    /\ LET errs == ChurchRoleSerializerErrors(data, 0, db.roles, FALSE)
       IN  IF errs # {}
           THEN /\ last' = Response("church-roles.create", data, 400, FieldErrors(errs))
                /\ UNCHANGED db
           ELSE /\ db' = ChurchRoleInsert(db, data, now)
                /\ last' = Response("church-roles.create", data, 201,
                                    Data(ChurchRoleRow(db.seq.roles, data, now)))
    /\ Served

\* DELETE /api/church-roles/{pk}/
ChurchRoleDestroy(pk) ==
    /\ Bounded(db)
    /\ IF pk \notin Ids(db.roles)
       THEN /\ last' = Response("church-roles.destroy", [pk |-> pk], 404, NotFound)
            /\ UNCHANGED db
       ELSE /\ db' = DeleteRoles(db, {pk})
            /\ last' = Response("church-roles.destroy", [pk |-> pk], 204, NoBody)
    /\ Served

\* ChurchPastorSerializer.is_valid(): three related keys and the
\* UniqueTogetherValidator of unique_together = [['church', 'pastor', 'role']].
\* unique_together = [['church', 'pastor', 'role']]: no row but the instance
\* has the triple of data.
ChurchPastorUniqueDropped(rows, data, instance) == TRUE
ChurchPastorUnique(rows, data, instance) ==
    ~\E a \in rows :
        /\ a.church = data.church /\ a.pastor = data.pastor /\ a.role = data.role
        /\ a.id # instance

ChurchPastorSerializerErrors(data, instance, d) ==
    LET fields ==
            (IF ~Has(data, "church") THEN {<<"church", "required">>}
             ELSE IF data.church \notin Ids(d.churches) THEN {<<"church", "does_not_exist">>}
             ELSE {})
            \cup
            (IF ~Has(data, "pastor") THEN {<<"pastor", "required">>}
             ELSE IF data.pastor \notin Ids(d.pastors) THEN {<<"pastor", "does_not_exist">>}
             ELSE {})
            \cup
            (IF ~Has(data, "role") THEN {<<"role", "required">>}
             ELSE IF data.role \notin Ids(d.roles) THEN {<<"role", "does_not_exist">>}
             ELSE {})
    IN  IF fields # {} THEN fields
        ELSE IF ~ChurchPastorUnique(d.churchPastors, data, instance)
        THEN {<<"non_field_errors", "unique">>}
        ELSE {}

ChurchPastorRow(id, data, t) ==
    [id |-> id, church |-> Field(data, "church", 0), pastor |-> Field(data, "pastor", 0),
     role |-> Field(data, "role", 0), created_at |-> t, updated_at |-> t]

ChurchPastorInsert(d, data, t) ==
    [d EXCEPT !.churchPastors = @ \cup {ChurchPastorRow(d.seq.churchPastors, data, t)},
              !.seq.churchPastors = @ + 1]

ChurchPastorRepr(row, d) ==
    row @@ [church_name |-> Row(d.churches, row.church).church_name,
            pastor_name |-> Row(d.pastors, row.pastor).full_name,
            role_name |-> Row(d.roles, row.role).role_name]

\* POST /api/church-pastors/
ChurchPastorCreate(data) ==
    /\ Bounded(db) /\ db.seq.churchPastors <= MaxId
    /\ LET errs == ChurchPastorSerializerErrors(data, 0, db)
       IN  IF errs # {}
           THEN /\ last' = Response("church-pastors.create", data, 400, FieldErrors(errs))
                /\ UNCHANGED db
           ELSE IF ~ChurchPastorUnique(db.churchPastors, data, 0)
           THEN /\ last' = Response("church-pastors.create", data, 500,
                                    ServerError("IntegrityError"))
                /\ UNCHANGED db
           ELSE /\ db' = ChurchPastorInsert(db, data, now)
                /\ last' = Response("church-pastors.create", data, 201,
                                    Data(ChurchPastorRepr(
                                        ChurchPastorRow(db.seq.churchPastors, data, now), db)))
    /\ Served

\* PUT and PATCH /api/church-pastors/{pk}/: a PATCH validates the keys it
\* carries, and the UniqueTogetherValidator takes the other keys of the
\* triple from the instance.
ChurchPastorWrite(op, pk, data, partial) ==
    /\ Bounded(db)
    /\ LET arg == [pk |-> pk, data |-> data]
       IN  IF pk \notin Ids(db.churchPastors)
           THEN /\ last' = Response(op, arg, 404, NotFound)
                /\ UNCHANGED db
           ELSE LET old == Row(db.churchPastors, pk)
                    merged == [k \in {"church", "pastor", "role"} |->
                                  IF Has(data, k) THEN data[k] ELSE old[k]]
                    errs == ChurchPastorSerializerErrors(IF partial THEN merged ELSE data, pk, db)
                    new == [old EXCEPT !.church = merged.church, !.pastor = merged.pastor,
                                       !.role = merged.role, !.updated_at = now]
                IN  IF errs # {}
                    THEN /\ last' = Response(op, arg, 400, FieldErrors(errs))
                         /\ UNCHANGED db
                    ELSE IF ~ChurchPastorUnique(db.churchPastors, merged, pk)
                    THEN /\ last' = Response(op, arg, 500, ServerError("IntegrityError"))
                         /\ UNCHANGED db
                    ELSE /\ db' = [db EXCEPT !.churchPastors = (@ \ {old}) \cup {new}]
                         /\ last' = Response(op, arg, 200, Data(ChurchPastorRepr(new, db)))
    /\ Served

ChurchPastorUpdate(pk, data) == ChurchPastorWrite("church-pastors.update", pk, data, FALSE)
ChurchPastorPartialUpdate(pk, data) ==
    ChurchPastorWrite("church-pastors.partial_update", pk, data, TRUE)

\* DELETE /api/church-pastors/{pk}/
ChurchPastorDestroy(pk) ==
    /\ Bounded(db)
    /\ IF pk \notin Ids(db.churchPastors)
       THEN /\ last' = Response("church-pastors.destroy", [pk |-> pk], 404, NotFound)
            /\ UNCHANGED db
       ELSE /\ db' = [db EXCEPT !.churchPastors = {a \in @ : a.id # pk}]
            /\ last' = Response("church-pastors.destroy", [pk |-> pk], 204, NoBody)
    /\ Served

-----------------------------------------------------------------------------
(* Querysets: counts, groupings and orderings *)

RecentDays == 30   \* timedelta(days=30)

\* .filter(created_at__gte=thirty_days_ago).count()
RecentCount(rows, t) == Cardinality({r \in rows : r.created_at >= t - RecentDays})

\* .values(key).annotate(count=Count('id')): one group per value present.
GroupCounts(rows, key) ==
    {[value |-> v, count |-> Cardinality({r \in rows : r[key] = v})] :
        v \in {r[key] : r \in rows}}

\* The sequences that list the set S once each.
RECURSIVE Perms(_)
Perms(S) ==
    IF S = {} THEN {<<>>}
    ELSE UNION {{<<x>> \o p : p \in Perms(S \ {x})} : x \in S}

\* .order_by('-count'): the groups, larger counts first; groups of one count
\* come in an order the database chooses.
ByCountDesc(groups) ==
    {p \in Perms(groups) : \A i, j \in DOMAIN p : i < j => p[i].count >= p[j].count}

\* sum(g['count'] for g in groups)
RECURSIVE SumCounts(_)
SumCounts(groups) ==
    IF groups = <<>> THEN 0 ELSE groups[1].count + SumCounts(Tail(groups))

\* The collation of the strings the model uses.
Collation ==
    <<"", "ArchBishop", "Bishop", "Grace", "Invalid Pastor", "Jane Smith", "John Doe",
      "Kisumu", "Nairobi", "North", "Pastor", "Presbyter", "Reverend", LongName,
      "active", "deceased", "retired", "suspended">>
Collate(str) == CHOOSE i \in DOMAIN Collation : Collation[i] = str

\* .order_by(key) over a text column: ascending; rows of one key come in an
\* order the database chooses.
OrderedByText(rows, key) ==
    {p \in Perms(rows) :
        \A i, j \in DOMAIN p : i < j => Collate(p[i][key]) <= Collate(p[j][key])}

\* .order_by('created_at')
OrderedByCreated(rows) ==
    {p \in Perms(rows) : \A i, j \in DOMAIN p : i < j => p[i].created_at <= p[j].created_at}

\* OrderingFilter: the ordering parameter is absent from the query or one
\* term, the name of a field, after a "-" for descending.
Ascending(field) == <<field>>
Descending(field) == <<"-", field>>
TermField(term) == term[Len(term)]
TermDescendingNever(term) == FALSE
TermDescending(term) == term[1] = "-"

\* OrderingFilter.get_ordering(): the term of the query if its field is one
\* of the view's ordering_fields (remove_invalid_fields), else the view's
\* ordering.
GetOrdering(q, ordering_fields, ordering) ==
    IF Has(q, "ordering") /\ TermField(q.ordering) \in ordering_fields
    THEN q.ordering ELSE ordering

\* queryset.order_by(term): key gives each row its place in the order of
\* the column, nulls are the rows whose column is NULL, which the database
\* puts together at one end; rows of one key come in an order the database
\* chooses.
OrderBy(rows, key, nulls, term) ==
    {p \in Perms(rows) :
        \E nullsFirst \in BOOLEAN :
            \A i, j \in DOMAIN p :
                i < j =>
                    IF p[i] \in nulls /\ p[j] \in nulls THEN TRUE
                    ELSE IF p[i] \in nulls THEN nullsFirst
                    ELSE IF p[j] \in nulls THEN ~nullsFirst
                    ELSE IF TermDescending(term) THEN key[p[i]] >= key[p[j]]
                    ELSE key[p[i]] <= key[p[j]]}

\* The place of a date among the dates.
DateOrdinal(date) == (date.y * 100 + date.m) * 100 + date.d

\* Min('created_at') / Max('created_at'): None (-1 here) over no rows.
NoTime == -1
MinCreated(rows) ==
    IF rows = {} THEN NoTime
    ELSE CHOOSE t \in {r.created_at : r \in rows} : \A r \in rows : t <= r.created_at
MaxCreated(rows) ==
    IF rows = {} THEN NoTime
    ELSE CHOOSE t \in {r.created_at : r \in rows} : \A r \in rows : t >= r.created_at

-----------------------------------------------------------------------------
(* The statistics and list actions, served whole *)

\* PastorViewSet.statistics: its seven queries, in the order they are run.
PastorTotalActiveOnly(rows) == Cardinality({r \in rows : r.status = "active"})
PastorTotal(rows) == Cardinality(rows)
PastorStatusCount(rows, status) == Cardinality({r \in rows : r.status = status})

\* GET /api/pastors/statistics/
PastorStatistics ==
    /\ Bounded(db)
    /\ \E by_rank \in ByCountDesc(GroupCounts(db.pastors, "pastor_rank")),
          by_status \in ByCountDesc(GroupCounts(db.pastors, "status")),
          by_gender \in ByCountDesc(GroupCounts(db.pastors, "gender")) :
          last' = Response("pastors.statistics", NoQuery, 200,
                           [total_pastors |-> PastorTotal(db.pastors),
                            recent_pastors |-> RecentCount(db.pastors, now),
                            active_pastors |-> PastorStatusCount(db.pastors, "active"),
                            retired_pastors |-> PastorStatusCount(db.pastors, "retired"),
                            pastors_by_rank |-> by_rank,
                            pastors_by_status |-> by_status,
                            pastors_by_gender |-> by_gender])
    /\ UNCHANGED db
    /\ Served

\* PastorViewSet.ordering_fields and ordering, and the order of a column.
PastorOrderingFields ==
    {"full_name", "pastor_rank", "date_of_birth", "start_of_service", "created_at", "status"}
PastorOrdering == Ascending("full_name")
PastorSortKey(row, field) ==
    IF field \in {"date_of_birth", "start_of_service"} THEN DateOrdinal(row[field])
    ELSE IF field = "created_at" THEN row.created_at
    ELSE Collate(row[field])
PastorOrdered(rows, q) ==
    LET term == GetOrdering(q, PastorOrderingFields, PastorOrdering)
        field == TermField(term)
    IN  OrderBy(rows, [r \in rows |-> PastorSortKey(r, field)],
                {r \in rows : field = "start_of_service" /\ r.start_of_service = NoneDate},
                term)

\* GET /api/pastors/: get_queryset(), then the filter backends
\* (DjangoFilterBackend, OrderingFilter).
PastorList(q) ==
    /\ Bounded(db)
    /\ IF PastorFiltersetErrors(q) # {}
       THEN last' = Response("pastors.list", q, 400, FieldErrors(PastorFiltersetErrors(q)))
       ELSE \E results \in PastorOrdered(PastorFilterset(PastorQueryset(db.pastors, q), q), q) :
               last' = Response("pastors.list", q, 200,
                                [results |-> [i \in DOMAIN results |-> PastorRepr(results[i])]])
    /\ UNCHANGED db
    /\ Served

\* DistrictViewSet.statistics, first query: the aggregate.
DistrictAggregate(rows, t) ==
    [total_districts |-> Cardinality(rows),
     recent_districts |-> RecentCount(rows, t),
     oldest_created_at |-> MinCreated(rows),
     newest_created_at |-> MaxCreated(rows)]

\* DistrictViewSet.statistics, second query: the rows created at the oldest
\* or the newest time, ordered by created_at; the names of the first and the
\* last of them, None when there is none.
DistrictExtremes(rows, stats) ==
    IF stats.oldest_created_at = NoTime THEN {[oldest |-> Null, newest |-> Null]}
    ELSE LET hit == {r \in rows : r.created_at \in {stats.oldest_created_at,
                                                    stats.newest_created_at}}
         IN  IF hit = {} THEN {[oldest |-> Null, newest |-> Null]}
             ELSE {[oldest |-> p[1].name, newest |-> p[Len(p)].name] : p \in OrderedByCreated(hit)}

\* GET /api/districts/statistics/
DistrictStatistics ==
    /\ Bounded(db)
    /\ LET stats == DistrictAggregate(db.districts, now)
       IN  \E ext \in DistrictExtremes(db.districts, stats) :
              last' = Response("districts.statistics", NoQuery, 200,
                               [total_districts |-> stats.total_districts,
                                recent_districts |-> stats.recent_districts,
                                oldest_district |-> ext.oldest,
                                newest_district |-> ext.newest])
    /\ UNCHANGED db
    /\ Served

\* .values('district__name').annotate(count=Count('id'))
SectionsByDistrict(d) ==
    GroupCounts({[id |-> x.id, district__name |-> Row(d.districts, x.district).name] :
                    x \in d.sections}, "district__name")

\* GET /api/sections/statistics/
SectionStatistics ==
    /\ Bounded(db)
    /\ \E by_district \in ByCountDesc(SectionsByDistrict(db)),
          asc \in OrderedByCreated(db.sections),
          desc \in OrderedByCreated(db.sections) :
          last' = Response("sections.statistics", NoQuery, 200,
                           [total_sections |-> Cardinality(db.sections),
                            recent_sections |-> RecentCount(db.sections, now),
                            sections_by_district |-> by_district,
                            districts_with_sections |->
                                Cardinality({x.district : x \in db.sections}),
                            oldest_section |-> IF asc = <<>> THEN Null ELSE asc[1].name,
                            newest_section |-> IF desc = <<>> THEN Null ELSE desc[Len(desc)].name])
    /\ UNCHANGED db
    /\ Served

\* SectionViewSet.ordering_fields and ordering, and the order of a column.
SectionOrderingFields == {"name", "created_at", "updated_at", "district__name"}
SectionOrdering == Ascending("name")
SectionSortKey(row, field, districts) ==
    IF field = "name" THEN Collate(row.name)
    ELSE IF field = "district__name" THEN Collate(Row(districts, row.district).name)
    ELSE row[field]

\* GET /api/sections/: every row, in the order OrderingFilter gives.
SectionListBy(q) ==
    /\ Bounded(db)
    /\ LET term == GetOrdering(q, SectionOrderingFields, SectionOrdering)
       IN  \E results \in OrderBy(db.sections,
                                  [r \in db.sections |->
                                      SectionSortKey(r, TermField(term), db.districts)],
                                  {}, term) :
              last' = Response("sections.list", q, 200,
                               [results |-> [i \in DOMAIN results |->
                                                SectionRepr(results[i], db.districts)]])
    /\ UNCHANGED db
    /\ Served

SectionList == SectionListBy(NoQuery)

\* DistrictViewSet.ordering_fields and ordering, and the order of a column.
DistrictOrderingFields == {"name", "created_at", "updated_at"}
DistrictOrdering == Ascending("name")
DistrictSortKey(row, field) == IF field = "name" THEN Collate(row.name) ELSE row[field]

\* GET /api/districts/: every row, in the order OrderingFilter gives.
DistrictListBy(q) ==
    /\ Bounded(db)
    /\ LET term == GetOrdering(q, DistrictOrderingFields, DistrictOrdering)
       IN  \E results \in OrderBy(db.districts,
                                  [r \in db.districts |-> DistrictSortKey(r, TermField(term))],
                                  {}, term) :
              last' = Response("districts.list", q, 200,
                               [results |-> [i \in DOMAIN results |-> DistrictRepr(results[i])]])
    /\ UNCHANGED db
    /\ Served

DistrictList == DistrictListBy(NoQuery)

\* int(text) of a query parameter, text a sequence of characters: white
\* space around it is dropped, a sign may come first, and what is left is
\* decimal digits, at least one.  [ok, value]
DecimalDigits == <<"0", "1", "2", "3", "4", "5", "6", "7", "8", "9">>
DigitOf(char) == (CHOOSE i \in DOMAIN DecimalDigits : DecimalDigits[i] = char) - 1
RECURSIVE Strip(_)
Strip(text) ==
    IF text = <<>> THEN text
    ELSE IF Head(text) = " " THEN Strip(Tail(text))
    ELSE IF text[Len(text)] = " " THEN Strip(SubSeq(text, 1, Len(text) - 1))
    ELSE text
RECURSIVE DecimalValue(_)
DecimalValue(digits) ==
    IF digits = <<>> THEN 0
    ELSE 10 * DecimalValue(SubSeq(digits, 1, Len(digits) - 1)) + DigitOf(digits[Len(digits)])
ParseInt(text) ==
    LET stripped == Strip(text)
        signed == stripped # <<>> /\ Head(stripped) \in {"-", "+"}
        digits == IF signed THEN Tail(stripped) ELSE stripped
    IN  IF digits = <<>> \/ \E i \in DOMAIN digits : digits[i] \notin Range(DecimalDigits)
        THEN [ok |-> FALSE, value |-> 0]
        ELSE [ok |-> TRUE,
              value |-> IF signed /\ Head(stripped) = "-" THEN 0 - DecimalValue(digits)
                        ELSE DecimalValue(digits)]

\* District.objects.filter(id=district_id).exists()
DistrictExistsAlways(rows, id) == TRUE
DistrictExists(rows, id) == id \in Ids(rows)

\* GET /api/sections/by_district/?district_id=<text>; q is the query string.
by_district(q) ==
    /\ Bounded(db)
    /\ LET parsed == ParseInt(q.district_id)
           key == parsed.value
           sections == {r \in db.sections : r.district = key}
       IN  IF ~Has(q, "district_id")
           THEN last' = Response("sections.by_district", q, 400,
                                 ErrorBody("district_id query parameter is required"))
           ELSE IF ~parsed.ok
           THEN last' = Response("sections.by_district", q, 400,
                                 ErrorBody("district_id must be a valid integer"))
           ELSE IF ~DistrictExists(db.districts, key)
           THEN last' = Response("sections.by_district", q, 404,
                                 [error |-> "District does not exist", id |-> key])
           ELSE \E results \in OrderBy(sections, [r \in sections |-> Collate(r.name)], {},
                                       SectionOrdering) :
                   last' = Response("sections.by_district", q, 200,
                                    [district_id |-> key,
                                     count |-> Len(results),
                                     sections |-> [i \in DOMAIN results |->
                                                      SectionRepr(results[i], db.districts)]])
    /\ UNCHANGED db
    /\ Served

\* The clock advances.
Tick ==
    /\ now + TickDays <= MaxNow
    /\ now' = now + TickDays
    /\ UNCHANGED <<db, last, pc, loc>>

-----------------------------------------------------------------------------
(* Requests served by concurrent workers, one database statement a step *)

Workers == {1, 2}
NoLocals == [none |-> TRUE]

\* Worker p moves to a label with its locals.
Goto(p, label, locals) ==
    /\ pc' = [pc EXCEPT ![p] = label]
    /\ loc' = [loc EXCEPT ![p] = locals]

\* Worker p sends its response and is done; its locals keep the response.
Respond(p, locals, status, body) ==
    /\ Goto(p, "done", [locals EXCEPT !.status = status] @@ [body |-> body])
    /\ last' = Response(locals.op, locals.arg, status, body)

\* A worker that answered takes the next request.
Return(p) ==
    /\ pc[p] = "done"
    /\ Goto(p, "idle", NoLocals)
    /\ UNCHANGED <<db, now, last>>

\* POST /api/districts/, first step: serializer.is_valid(), whose
\* UniqueValidator reads the table. (unused records that the name was in no
\* row at that read.)
DistrictCreateValidate(p, data) ==
    /\ pc[p] = "idle"
    /\ Bounded(db) /\ db.seq.districts <= MaxId
    /\ LET errs == DistrictSerializerErrors(data, 0, db.districts, FALSE)
           locals == [op |-> "districts.create", arg |-> data, status |-> 0,
                      unused |-> data.name \notin {r.name : r \in db.districts}]
       IN  IF errs # {}
           THEN Respond(p, locals, 400, FieldErrors(errs))
           ELSE Goto(p, "districts.create.save", locals) /\ UNCHANGED last
    /\ UNCHANGED <<db, now>>

\* POST /api/districts/, second step: serializer.save(), the INSERT; the
\* unique index refuses a name stored meanwhile and nothing catches the
\* IntegrityError.
DistrictCreateSave(p) ==
    /\ pc[p] = "districts.create.save"
    /\ LET data == loc[p].arg
       IN  IF ~DistrictInsertOk(db, data.name)
           THEN /\ Respond(p, loc[p], 500, ServerError("IntegrityError"))
                /\ UNCHANGED db
           ELSE /\ db' = DistrictInsert(db, data.name, now)
                /\ Respond(p, loc[p], 201,
                           Data(DistrictRepr(DistrictRow(db.seq.districts, data.name, now))))
    /\ UNCHANGED now

\* The locals of a bulk_create: the position in the list and the rows made.
BulkLocals(op, field) ==
    [op |-> op, arg |-> field, status |-> 0, i |-> 1, made |-> <<>>]

\* POST /api/pastors/bulk_create/, first step: the checks and is_valid().
PastorBulkValidate(p, field) ==
    /\ pc[p] = "idle"
    /\ Bounded(db) /\ db.seq.pastors <= MaxId
    /\ LET locals == BulkLocals("pastors.bulk_create", field)
       IN  IF NotANonEmptyList(field)
           THEN Respond(p, locals, 400, ErrorBody("pastors field must be a non-empty list"))
           ELSE IF ~NoErrors(PastorListErrors(field.items))
           THEN Respond(p, locals, 400, FieldErrors(PastorListErrors(field.items)))
           ELSE Goto(p, "pastors.bulk_create.save", locals) /\ UNCHANGED last
    /\ UNCHANGED <<db, now>>

\* POST /api/pastors/bulk_create/, serializer.save(): one INSERT, committed
\* as it is made (the handler opens no transaction); after the last one the
\* response.
PastorBulkSaveRow(p) ==
    /\ pc[p] = "pastors.bulk_create.save"
    /\ LET items == loc[p].arg.items
           i == loc[p].i
           made == Append(loc[p].made, PastorRepr(PastorRow(db.seq.pastors, items[i], now)))
           locals == [loc[p] EXCEPT !.i = i + 1, !.made = made]
       IN  /\ db' = PastorInsert(db, items[i], now)
           /\ IF i = Len(items)
              THEN Respond(p, locals, 201, Data(made))
              ELSE Goto(p, "pastors.bulk_create.save", locals) /\ UNCHANGED last
    /\ UNCHANGED now

\* POST /api/sections/bulk_create/, first step: the checks and is_valid().
SectionBulkValidate(p, field) ==
    /\ pc[p] = "idle"
    /\ Bounded(db) /\ db.seq.sections <= MaxId
    /\ LET locals == BulkLocals("sections.bulk_create", field)
       IN  IF NotANonEmptyList(field)
           THEN Respond(p, locals, 400, ErrorBody("sections field must be a non-empty list"))
           ELSE IF ~NoErrors(SectionListErrors(field.items, db.districts))
           THEN Respond(p, locals, 400, FieldErrors(SectionListErrors(field.items, db.districts)))
           ELSE Goto(p, "sections.bulk_create.save", locals) /\ UNCHANGED last
    /\ UNCHANGED <<db, now>>

\* POST /api/sections/bulk_create/, serializer.save(): one INSERT, committed
\* as it is made; the foreign key refuses a district deleted meanwhile, the
\* IntegrityError is caught by nothing and the rows made before it stay.
SectionBulkSaveRow(p) ==
    /\ pc[p] = "sections.bulk_create.save"
    /\ LET items == loc[p].arg.items
           i == loc[p].i
           row == SectionRow(db.seq.sections, items[i], now)
           made == Append(loc[p].made, [id |-> row.id, name |-> row.name])
           locals == [loc[p] EXCEPT !.i = i + 1, !.made = made]
       IN  IF ~SectionInsertOk(db, items[i])
           THEN /\ Respond(p, loc[p], 500, ServerError("IntegrityError"))
                /\ UNCHANGED db
           ELSE /\ db' = SectionInsert(db, items[i], now)
                /\ IF i = Len(items)
                   THEN Respond(p, locals, 201, Data(made))
                   ELSE Goto(p, "sections.bulk_create.save", locals) /\ UNCHANGED last
    /\ UNCHANGED now

\* POST /api/districts/bulk_create/, first step: the checks and is_valid().
DistrictBulkValidate(p, field) ==
    /\ pc[p] = "idle"
    /\ Bounded(db) /\ db.seq.districts <= MaxId
    /\ LET locals == BulkLocals("districts.bulk_create", field)
       IN  IF NotANonEmptyList(field)
           THEN Respond(p, locals, 400, ErrorBody("districts field must be a non-empty list"))
           ELSE IF DistrictBulkTooLong(field.items)
           THEN Respond(p, locals, 400,
                        [error |-> "Cannot create more than", limit |-> MAX_BULK_CREATE,
                         provided |-> Len(field.items)])
           ELSE IF ~NoErrors(DistrictListErrors(field.items, db.districts))
           THEN Respond(p, locals, 400, FieldErrors(DistrictListErrors(field.items, db.districts)))
           ELSE Goto(p, "districts.bulk_create.save", locals) /\ UNCHANGED last
    /\ UNCHANGED <<db, now>>

\* POST /api/districts/bulk_create/, with transaction.atomic():
\* serializer.save(): the INSERTs show to the other workers at the commit,
\* all of them, or none when one of them fails.
DistrictBulkCommit(p) ==
    /\ pc[p] = "districts.bulk_create.save"
    /\ LET items == loc[p].arg.items
           saved == DistrictAtomicSave(db, items, now)
       IN  /\ db' = saved.db
           /\ IF saved.ok
              THEN Respond(p, [loc[p] EXCEPT !.i = Len(items) + 1, !.made = saved.made],
                           201, Data(saved.made))
              ELSE Respond(p, loc[p], 400,
                           ErrorBody("Duplicate district name or database constraint violation"))
    /\ UNCHANGED now

\* PastorSerializer.update(): the writable fields the payload holds are set
\* on the instance (id, pastor_id, created_at and updated_at are read-only)
\* and save() stamps updated_at (auto_now).
PastorUpdatedAnew(old, data, t) == PastorRow(old.id, data, t)
PastorUpdated(old, data, t) ==
    [k \in DOMAIN old |->
        IF k = "updated_at" THEN t
        ELSE IF k \notin {"id", "created_at"} /\ Has(data, k) THEN data[k]
        ELSE old[k]]

\* PUT and PATCH /api/pastors/{pk}/ (ModelViewSet.update), served whole.
PastorWrite(op, pk, data, q, partial) ==
    /\ Bounded(db)
    /\ LET arg == [pk |-> pk, data |-> data, q |-> q]
       IN  IF PastorFiltersetErrors(q) # {}
           THEN /\ last' = Response(op, arg, 400, FieldErrors(PastorFiltersetErrors(q)))
                /\ UNCHANGED db
           ELSE IF pk \notin Ids(PastorObjects(db.pastors, q))
           THEN /\ last' = Response(op, arg, 404, NotFound)
                /\ UNCHANGED db
           ELSE LET old == Row(db.pastors, pk)
                    errs == PastorSerializerErrors(data, partial)
                    new == PastorUpdated(old, data, now)
                IN  IF errs # {}
                    THEN /\ last' = Response(op, arg, 400, FieldErrors(errs))
                         /\ UNCHANGED db
                    ELSE /\ db' = [db EXCEPT !.pastors = (@ \ {old}) \cup {new}]
                         /\ last' = Response(op, arg, 200, Data(PastorRepr(new)))
    /\ Served

PastorUpdate(pk, data, q) == PastorWrite("pastors.update", pk, data, q, FALSE)
PastorPartialUpdate(pk, data, q) == PastorWrite("pastors.partial_update", pk, data, q, TRUE)

\* PastorViewSet.statistics: the keys of its response in the order their
\* queries run, and what the query of a key returns.
PastorStatisticsQueries ==
    <<"total_pastors", "recent_pastors", "active_pastors", "retired_pastors",
      "pastors_by_rank", "pastors_by_status", "pastors_by_gender">>

PastorStatisticsResults(rows, t, key) ==
    CASE key = "total_pastors" -> {PastorTotal(rows)}
      [] key = "recent_pastors" -> {RecentCount(rows, t)}
      [] key = "active_pastors" -> {PastorStatusCount(rows, "active")}
      [] key = "retired_pastors" -> {PastorStatusCount(rows, "retired")}
      [] key = "pastors_by_rank" -> ByCountDesc(GroupCounts(rows, "pastor_rank"))
      [] key = "pastors_by_status" -> ByCountDesc(GroupCounts(rows, "status"))
      [] key = "pastors_by_gender" -> ByCountDesc(GroupCounts(rows, "gender"))

\* GET /api/pastors/statistics/, first step: Pastor.objects.count(), and
\* thirty_days_ago from the clock.
PastorStatisticsBegin(p) ==
    /\ pc[p] = "idle"
    /\ Bounded(db)
    /\ Goto(p, "pastors.statistics.query",
            [op |-> "pastors.statistics", arg |-> NoQuery, status |-> 0, k |-> 2, t |-> now,
             body |-> [total_pastors |-> PastorTotal(db.pastors)]])
    /\ UNCHANGED <<db, now, last>>

\* GET /api/pastors/statistics/, one more query; after the last the response.
PastorStatisticsQuery(p) ==
    /\ pc[p] = "pastors.statistics.query"
    /\ LET k == loc[p].k
           key == PastorStatisticsQueries[k]
       IN  \E result \in PastorStatisticsResults(db.pastors, loc[p].t, key) :
              LET body == (key :> result) @@ loc[p].body
              IN  IF k = Len(PastorStatisticsQueries)
                  THEN /\ pc' = [pc EXCEPT ![p] = "done"]
                       /\ loc' = [loc EXCEPT ![p] = [@ EXCEPT !.status = 200, !.body = body,
                                                              !.k = k + 1]]
                       /\ last' = Response("pastors.statistics", NoQuery, 200, body)
                  ELSE /\ Goto(p, "pastors.statistics.query",
                               [loc[p] EXCEPT !.k = k + 1, !.body = body])
                       /\ UNCHANGED last
    /\ UNCHANGED <<db, now>>

\* GET /api/districts/statistics/, first step: thirty_days_ago from the
\* clock and the aggregate query.
DistrictStatisticsBegin(p) ==
    /\ pc[p] = "idle"
    /\ Bounded(db)
    /\ Goto(p, "districts.statistics.names",
            [op |-> "districts.statistics", arg |-> NoQuery, status |-> 0,
             stats |-> DistrictAggregate(db.districts, now), body |-> NoBody])
    /\ UNCHANGED <<db, now, last>>

\* GET /api/districts/statistics/, second step: the query of the oldest and
\* newest rows, which is run if the aggregate found a created_at, and the
\* response.
DistrictStatisticsNames(p) ==
    /\ pc[p] = "districts.statistics.names"
    /\ LET stats == loc[p].stats
       IN  \E ext \in DistrictExtremes(db.districts, stats) :
              LET body == [total_districts |-> stats.total_districts,
                           recent_districts |-> stats.recent_districts,
                           oldest_district |-> ext.oldest,
                           newest_district |-> ext.newest]
              IN  /\ pc' = [pc EXCEPT ![p] = "done"]
                  /\ loc' = [loc EXCEPT ![p] = [@ EXCEPT !.status = 200, !.body = body]]
                  /\ last' = Response("districts.statistics", NoQuery, 200, body)
    /\ UNCHANGED <<db, now>>

-----------------------------------------------------------------------------
(* PastorViewSet.summary *)

\* (today.month, today.day) < (start.month, start.day), as tuples compare.
MonthDayNotAfter(today, start) ==
    today.m < start.m \/ (today.m = start.m /\ today.d <= start.d)
MonthDayBefore(today, start) ==
    today.m < start.m \/ (today.m = start.m /\ today.d < start.d)

\* today.year - start.year - ((today.month, today.day) < (start.month, start.day))
YearsSince(today, start) ==
    today.y - start.y - (IF MonthDayBefore(today, start) THEN 1 ELSE 0)

\* None or a number in a response: the empty set or the set of the number.
NoNumber == {}
Number(n) == {n}

\* GET /api/pastors/{pk}/summary/ served on the day date.today() returns.
PastorSummary(pk, q, today) ==
    /\ Bounded(db)
    /\ LET arg == [pk |-> pk, q |-> q, today |-> today]
       IN  IF PastorFiltersetErrors(q) # {}
           THEN last' = Response("pastors.summary", arg, 400,
                                 FieldErrors(PastorFiltersetErrors(q)))
           ELSE IF pk \notin Ids(PastorObjects(db.pastors, q))
           THEN last' = Response("pastors.summary", arg, 404, NotFound)
           ELSE LET pastor == Row(db.pastors, pk)
                IN  last' = Response("pastors.summary", arg, 200,
                                     [pastor |-> PastorRepr(pastor),
                                      age |-> YearsSince(today, pastor.date_of_birth),
                                      years_of_service |->
                                          IF pastor.start_of_service = NoneDate THEN NoNumber
                                          ELSE Number(YearsSince(today, pastor.start_of_service))])
    /\ UNCHANGED db
    /\ Served

-----------------------------------------------------------------------------
(* The caller of a pastors request *)

Anonymous == "AnonymousUser"
Callers == {Anonymous, "testuser"}

\* The permission of the pastors endpoints: IsAuthenticated, as
\* test_authentication_required states it (AllowAny is the framework's own
\* default).
AllowAny(user) == TRUE
IsAuthenticated(user) == user # Anonymous

NotAuthenticated == [detail |-> "Authentication credentials were not provided."]

\* APIView.initial(): check_permissions() before the handler runs; a caller
\* without permission is answered 403 and the handler does not run.
PastorAs(user, op, arg, handler) ==
    IF IsAuthenticated(user)
    THEN handler
    ELSE /\ last' = Response(op, arg, 403, NotAuthenticated)
         /\ UNCHANGED db
         /\ Served

PastorListAs(user, q) == PastorAs(user, "pastors.list", q, PastorList(q))
PastorCreateAs(user, data) == PastorAs(user, "pastors.create", data, PastorCreate(data))
PastorDestroyAs(user, pk) ==
    PastorAs(user, "pastors.destroy", [pk |-> pk, q |-> NoQuery], PastorDestroy(pk, NoQuery))
PastorPartialUpdateAs(user, pk, data) ==
    PastorAs(user, "pastors.partial_update", [pk |-> pk, data |-> data, q |-> NoQuery],
             PastorPartialUpdate(pk, data, NoQuery))
PastorStatisticsAs(user) == PastorAs(user, "pastors.statistics", NoQuery, PastorStatistics)
PastorBulkCreateAs(user, field) ==
    PastorAs(user, "pastors.bulk_create", field, PastorBulkCreate(field))

-----------------------------------------------------------------------------
(* Inputs *)

DistrictData == [name : DistrictNames \cup {"", Absent, LongName}]

DistrictBatches ==
    {NoField, ScalarField} \cup {ListField(b) : b \in SeqsUpTo(DistrictData, MaxBatch)}

\* Lists around the limit of the districts bulk_create: MAX_BULK_CREATE and
\* MAX_BULK_CREATE + 1 items of distinct names, and the longer one with its
\* last name blank.
ManyNames ==
    <<"Baringo", "Bomet", "Bungoma", "Busia", "Embu", "Garissa", "Kiambu",
      "Kilifi", "Kisii", "Kitui", "Kwale">>
ManyDistricts(n) == [i \in 1..n |-> [name |-> ManyNames[i]]]
LongDistrictBatches ==
    {ListField(ManyDistricts(MAX_BULK_CREATE)),
     ListField(ManyDistricts(MAX_BULK_CREATE + 1)),
     ListField([ManyDistricts(MAX_BULK_CREATE + 1) EXCEPT ![MAX_BULK_CREATE + 1].name = ""])}

JohnDoe ==
    [full_name |-> "John Doe", gender |-> "Male", pastor_rank |-> "Bishop",
     national_id |-> "12345678", date_of_birth |-> Date(1970, 1, 1),
     phone_number |-> PhonePrefix \o <<"1", "2", "3", "4", "5", "6", "7", "8">>,
     start_of_service |-> Date(2000, 1, 1), status |-> "active"]
JaneSmith ==
    [full_name |-> "Jane Smith", gender |-> "Female", pastor_rank |-> "Reverend",
     date_of_birth |-> Date(1980, 6, 15),
     phone_number |-> PhonePrefix \o <<"8", "7", "6", "5", "4", "3", "2", "1">>,
     status |-> "retired"]
\* The item of test_bulk_create_transaction_rollback: no date_of_birth.
NoBirthDate ==
    [full_name |-> "Invalid Pastor", gender |-> "Male", pastor_rank |-> "Pastor",
     phone_number |-> PhonePrefix \o <<"4", "4", "4", "4", "4", "4", "4", "4">>,
     status |-> "active"]

PastorItems == {JohnDoe, JaneSmith, NoBirthDate}
PastorBatches ==
    {NoField, ScalarField} \cup {ListField(b) : b \in SeqsUpTo(PastorItems, MaxBatch)}

\* The limit test_bulk_create_rate_limit expects of the pastors bulk_create,
\* and its list: one item more, every item valid.
PastorBulkLimit == 1000
LongPastorBatches == {ListField([i \in 1..(PastorBulkLimit + 1) |-> JohnDoe])}

SectionItems ==
    {[name |-> "North", district |-> pk] : pk \in Pks} \cup {[district |-> 1]}
SectionBatches ==
    {NoField, ScalarField} \cup {ListField(b) : b \in SeqsUpTo(SectionItems, MaxBatch)}

-----------------------------------------------------------------------------
(* Districts served one request at a time *)

Init ==
    /\ db = EmptyDb
    /\ now = 0
    /\ last = NoRequest
    /\ pc = [p \in Workers |-> "idle"]
    /\ loc = [p \in Workers |-> NoLocals]

NextDistrict ==
    \/ \E data \in DistrictData : DistrictCreate(data)
    \/ \E pk \in Pks, data \in DistrictData : DistrictUpdate(pk, data)
    \/ \E pk \in Pks, data \in DistrictData : DistrictPartialUpdate(pk, data)
    \/ \E pk \in Pks : DistrictDestroy(pk)
    \/ \E field \in DistrictBatches : DistrictBulkCreate(field)
    \/ DistrictList

SpecDistrict == Init /\ [][NextDistrict]_vars

-----------------------------------------------------------------------------
(* Claims about Districts *)

\* C4: in every state reached by District create, update, partial update,
\* bulk_create and delete, no two stored Districts have the same name.
C4_DistrictNamesUnique ==
    \A r1, r2 \in db.districts : r1.name = r2.name => r1.id = r2.id

\* C4's case: a District is stored and the last request, a bulk_create of
\* two items with one unused name, passed validation and was turned down by
\* the unique index.
C4_Witness ==
    /\ db.districts # {}
    /\ last.op = "districts.bulk_create" /\ last.status = 400
    /\ last.arg.kind = "list" /\ Len(last.arg.items) = 2
    /\ last.arg.items[1] = last.arg.items[2]
    /\ last.body = ErrorBody("Duplicate district name or database constraint violation")
    /\ last.arg.kind = "list" /\ Len(last.arg.items) = 2
    /\ last.arg.items[1] = last.arg.items[2]

\* C5: a create whose name is the name of a stored District is answered with
\* a client error (400, the name reported as not unique) and leaves the
\* stored Districts, hence their count, as they were.
C5_DuplicateCreateRejected ==
    [][(/\ last'.op = "districts.create"
        /\ \E r \in db.districts : r.name = last'.arg.name)
       => (/\ last'.status = 400
           /\ <<"name", "unique">> \in last'.body.errors
           /\ db'.districts = db.districts)]_vars

\* C5's case: such a create was just turned down while a District is stored.
C5_Witness ==
    /\ last.op = "districts.create" /\ last.status = 400
    /\ \E r \in db.districts : r.name = last.arg.name

-----------------------------------------------------------------------------
(* The bulk_create endpoints served one request at a time *)

BulkDistrictData == [name : DistrictNames \cup {""}]
BulkDistrictBatches ==
    {NoField, ScalarField} \cup {ListField(b) : b \in SeqsUpTo(BulkDistrictData, MaxBatch)}

NextBulk ==
    \/ \E field \in BulkDistrictBatches \cup LongDistrictBatches : DistrictBulkCreate(field)
    \/ \E field \in SectionBatches : SectionBulkCreate(field)
    \/ \E field \in PastorBatches : PastorBulkCreate(field)
    \/ \E pk \in Pks : DistrictDestroy(pk)

SpecBulk == Init /\ [][NextBulk]_vars

\* The bulk_create endpoints that the limit is about, with lists around it.
NextLimit ==
    \/ \E field \in BulkDistrictBatches \cup LongDistrictBatches : DistrictBulkCreate(field)
    \/ \E field \in PastorBatches \cup LongPastorBatches : PastorBulkCreate(field)
    \/ \E pk \in Pks : DistrictDestroy(pk)
    \/ \E pk \in Pks : PastorDestroy(pk, NoQuery)

SpecLimit == Init /\ [][NextLimit]_vars

-----------------------------------------------------------------------------
(* Claims about bulk_create *)

\* The step served a bulk_create (op) of a list.
BulkStep(op) == last'.op = op /\ last'.arg.kind = "list"

PastorItemsInvalid(items) ==
    \E i \in DOMAIN items : PastorSerializerErrors(items[i], FALSE) # {}
SectionItemsInvalid(items, districts) ==
    \E i \in DOMAIN items : SectionSerializerErrors(items[i], districts, FALSE) # {}
DistrictItemsInvalid(items, rows) ==
    \E i \in DOMAIN items : DistrictSerializerErrors(items[i], 0, rows, FALSE) # {}

\* C1 as stated: a bulk_create (pastors, sections, districts) of a list with
\* an item that fails validation is answered 400 with the validation errors,
\* and the entity's stored rows are what they were before the call.
C1_AsStated ==
    [][/\ (BulkStep("pastors.bulk_create") /\ PastorItemsInvalid(last'.arg.items))
          => (/\ last'.status = 400
              /\ "errors" \in DOMAIN last'.body
              /\ db'.pastors = db.pastors)
       /\ (BulkStep("sections.bulk_create") /\ SectionItemsInvalid(last'.arg.items, db.districts))
          => (/\ last'.status = 400
              /\ "errors" \in DOMAIN last'.body
              /\ db'.sections = db.sections)
       /\ (BulkStep("districts.bulk_create") /\ DistrictItemsInvalid(last'.arg.items, db.districts))
          => (/\ last'.status = 400
              /\ "errors" \in DOMAIN last'.body
              /\ db'.districts = db.districts)]_vars

\* C1 amended: such a bulk_create is answered 400 and the entity's stored
\* rows are what they were before the call; the 400 carries the per-item
\* validation errors, except that a districts list longer than
\* MAX_BULK_CREATE is answered with the limit error instead (the length is
\* checked before any item is validated).
C1_InvalidBatchStoresNothing ==
    [][/\ (BulkStep("pastors.bulk_create") /\ PastorItemsInvalid(last'.arg.items))
          => (/\ last'.status = 400
              /\ "errors" \in DOMAIN last'.body
              /\ \E i \in DOMAIN last'.body.errors : last'.body.errors[i] # {}
              /\ db'.pastors = db.pastors)
       /\ (BulkStep("sections.bulk_create") /\ SectionItemsInvalid(last'.arg.items, db.districts))
          => (/\ last'.status = 400
              /\ "errors" \in DOMAIN last'.body
              /\ \E i \in DOMAIN last'.body.errors : last'.body.errors[i] # {}
              /\ db'.sections = db.sections)
       /\ (BulkStep("districts.bulk_create") /\ DistrictItemsInvalid(last'.arg.items, db.districts))
          => (/\ last'.status = 400
              /\ db'.districts = db.districts
              /\ IF Len(last'.arg.items) > MAX_BULK_CREATE
                 THEN "limit" \in DOMAIN last'.body
                 ELSE /\ "errors" \in DOMAIN last'.body
                      /\ \E i \in DOMAIN last'.body.errors : last'.body.errors[i] # {})]_vars

\* C1's case (test_bulk_create_transaction_rollback): with pastors stored, a
\* list of a valid item and an item with no date_of_birth was turned down.
C1_Witness ==
    /\ db.pastors # {}
    /\ last.op = "pastors.bulk_create" /\ last.status = 400
    /\ last.arg.kind = "list" /\ Len(last.arg.items) = 2
    /\ PastorSerializerErrors(last.arg.items[1], FALSE) = {}
    /\ <<"date_of_birth", "required">> \in PastorSerializerErrors(last.arg.items[2], FALSE)

\* C3 as stated: a bulk_create of a list longer than the entity's limit
\* (pastors 1000, districts 10) is answered 400 with an error that states
\* the limit, and no row is created.
C3_OverLimitRejected ==
    [][/\ (BulkStep("pastors.bulk_create") /\ Len(last'.arg.items) > PastorBulkLimit)
          => (/\ last'.status = 400
              /\ "limit" \in DOMAIN last'.body
              /\ last'.body.limit = PastorBulkLimit
              /\ db'.pastors = db.pastors)
       /\ (BulkStep("districts.bulk_create") /\ Len(last'.arg.items) > MAX_BULK_CREATE)
          => (/\ last'.status = 400
              /\ "limit" \in DOMAIN last'.body
              /\ last'.body.limit = MAX_BULK_CREATE
              /\ db'.districts = db.districts)]_vars

-----------------------------------------------------------------------------
(* The hierarchy served one request at a time *)

TreeDistrictData == [name : DistrictNames]
TreeSectionData == {[name |-> "North", district |-> pk] : pk \in Pks}
TreeChurchData == {[church_name |-> "Grace", section |-> pk] : pk \in Pks}
TreeRoleData == {[role_name |-> "Senior Pastor"]}
TreeAssignments == {[church |-> c, pastor |-> p, role |-> 1] : c \in Pks, p \in Pks}

NextTree ==
    \/ \E data \in TreeDistrictData : DistrictCreate(data)
    \/ \E data \in TreeSectionData : SectionCreate(data)
    \/ \E data \in TreeChurchData : ChurchCreate(data)
    \/ \E data \in TreeRoleData : ChurchRoleCreate(data)
    \/ PastorCreate(JohnDoe)
    \/ \E data \in TreeAssignments : ChurchPastorCreate(data)
    \/ \E pk \in Pks : DistrictDestroy(pk)
    \/ \E pk \in Pks, q \in {NoQuery, [status |-> "retired"]} : PastorDestroy(pk, q)

SpecTree == Init /\ [][NextTree]_vars

-----------------------------------------------------------------------------
(* Claims about deletes *)

\* C7: deleting a District removes it, every Section of it, every Church of
\* those Sections and every ChurchPastor row of those Churches: none of the
\* rows that descended from it is stored afterwards.
C7_DistrictDeleteCascades ==
    [][(last'.op = "districts.destroy" /\ last'.arg.pk \in Ids(db.districts))
       => LET pk == last'.arg.pk
              secs == {x \in db.sections : x.district = pk}
              chus == {c \in db.churches : \E x \in secs : c.section = x.id}
              asgs == {a \in db.churchPastors : \E c \in chus : a.church = c.id}
          IN  /\ last'.status = 204
              /\ pk \notin Ids(db'.districts)
              /\ Ids(db'.sections) \cap Ids(secs) = {}
              /\ Ids(db'.churches) \cap Ids(chus) = {}
              /\ Ids(db'.churchPastors) \cap Ids(asgs) = {}
              /\ \A x \in db'.sections : x.district # pk]_vars

\* C7's case: the only District ever created was just deleted, after a
\* Section, a Church and an assignment had been created under it; the one
\* Pastor ever created is still stored, so the cascade removed the assignment.
C7_Witness ==
    /\ last.op = "districts.destroy" /\ last.status = 204
    /\ db.seq.districts = 2 /\ db.districts = {}
    /\ db.seq.sections > 1 /\ db.seq.churches > 1 /\ db.seq.churchPastors > 1
    /\ db.seq.pastors = 2 /\ db.pastors # {}
    /\ db.sections = {} /\ db.churches = {} /\ db.churchPastors = {}

\* C8: deleting a stored Pastor (DELETE /api/pastors/{pk}/) answers 204,
\* removes that Pastor alone (the count drops by one) and exactly the
\* ChurchPastor rows that reference it; Districts, Sections, Churches,
\* ChurchRoles and every other row stay as they were.  A delete answered
\* otherwise changes nothing.
C8_PastorDeleteFrame ==
    [][(last'.op = "pastors.destroy")
       => LET pk == last'.arg.pk
          IN  /\ (pk \in Ids(db.pastors) /\ last'.arg.q = NoQuery) => last'.status = 204
              /\ last'.status = 204 =>
                    /\ db'.pastors = {r \in db.pastors : r.id # pk}
                    /\ Cardinality(db'.pastors) = Cardinality(db.pastors) - 1
                    /\ db'.churchPastors = {a \in db.churchPastors : a.pastor # pk}
                    /\ db'.churches = db.churches
                    /\ db'.roles = db.roles
                    /\ db'.sections = db.sections
                    /\ db'.districts = db.districts
              /\ last'.status # 204 => db' = db]_vars

\* C8's case: two Pastors were assigned, one was just deleted with its
\* assignment, the other Pastor and its assignment are still stored (no
\* District was ever deleted, so only the Pastor's delete removed a row).
C8_Witness ==
    /\ last.op = "pastors.destroy" /\ last.status = 204
    /\ db.seq.pastors = 3 /\ Cardinality(db.pastors) = 1
    /\ db.seq.churchPastors = 3 /\ Cardinality(db.churchPastors) = 1
    /\ db.seq.districts = 2 /\ db.districts # {}

-----------------------------------------------------------------------------
(* Statistics and lists served one request at a time *)

NextRead ==
    \/ \E data \in TreeDistrictData : DistrictCreate(data)
    \/ \E data \in TreeSectionData : SectionCreate(data)
    \/ \E data \in {JohnDoe, JaneSmith} : PastorCreate(data)
    \/ \E pk \in Pks : DistrictDestroy(pk)
    \/ \E pk \in Pks : PastorDestroy(pk, NoQuery)
    \/ PastorStatistics
    \/ DistrictStatistics
    \/ SectionStatistics
    \/ \E q \in {NoQuery, [status |-> "active"]} : PastorList(q)
    \/ DistrictList
    \/ SectionList
    \/ Tick

SpecRead == Init /\ [][NextRead]_vars

-----------------------------------------------------------------------------
(* Claims about statistics served one request at a time *)

\* The rows the unfiltered list of an entity returns in the current state.
PastorListRows == PastorFilterset(PastorQueryset(db.pastors, NoQuery), NoQuery)
DistrictListRows == db.districts
SectionListRows == db.sections

\* C10: with requests served one at a time, the total a statistics action
\* returns (total_pastors, total_districts, total_sections) is the number of
\* rows the unfiltered list of that entity returns in the same state, every
\* ordering of the list having that many rows; for pastors, active_pastors
\* and retired_pastors are the numbers of stored pastors of status 'active'
\* and 'retired'.
C10_TotalsMatchLists ==
    /\ last.op = "pastors.statistics" =>
          /\ \A results \in OrderedByText(PastorListRows, "full_name") :
                last.body.total_pastors = Len(results)
          /\ last.body.active_pastors =
                Cardinality({r \in db.pastors : r.status = "active"})
          /\ last.body.retired_pastors =
                Cardinality({r \in db.pastors : r.status = "retired"})
    /\ last.op = "districts.statistics" =>
          \A results \in OrderedByText(DistrictListRows, "name") :
             last.body.total_districts = Len(results)
    /\ last.op = "sections.statistics" =>
          \A results \in OrderedByText(SectionListRows, "name") :
             last.body.total_sections = Len(results)

\* C10 witness: statistics of two stored pastors, one active and one retired.
C10_Witness ==
    /\ last.op = "pastors.statistics"
    /\ last.body.total_pastors = 2
    /\ last.body.active_pastors = 1
    /\ last.body.retired_pastors = 1
    /\ Cardinality(db.pastors) = 2

-----------------------------------------------------------------------------
(* Two workers creating districts *)

RaceDistrictData == [name : DistrictNames \cup {""}]

NextRace ==
    \/ \E p \in Workers, data \in RaceDistrictData : DistrictCreateValidate(p, data)
    \/ \E p \in Workers : DistrictCreateSave(p)
    \/ \E p \in Workers : Return(p)

SpecRace == Init /\ [][NextRace]_vars

\* Workers p and q have both answered a create of a district of one name,
\* a name the serializer accepts of a first district.
SameNameCreates(p, q) ==
    /\ p # q
    /\ pc[p] = "done" /\ pc[q] = "done"
    /\ loc[p].op = "districts.create" /\ loc[q].op = "districts.create"
    /\ loc[p].arg.name = loc[q].arg.name
    /\ DistrictSerializerErrors(loc[p].arg, 0, {}, FALSE) = {}

-----------------------------------------------------------------------------
(* bulk_create served by concurrent workers, a request each, beside requests
   served whole *)

TxnPastorBatches ==
    {NoField} \cup {ListField(b) : b \in SeqsUpTo({JohnDoe, NoBirthDate}, MaxBatch)}
TxnSectionBatches ==
    {ListField(b) : b \in SeqsUpTo(SectionItems, MaxBatch)}
TxnDistrictBatches ==
    {ListField(b) : b \in SeqsUpTo([name : DistrictNames], MaxBatch)}

NextTxn ==
    \/ \E p \in Workers, field \in TxnPastorBatches : PastorBulkValidate(p, field)
    \/ \E p \in Workers : PastorBulkSaveRow(p)
    \/ \E p \in Workers, field \in TxnSectionBatches : SectionBulkValidate(p, field)
    \/ \E p \in Workers : SectionBulkSaveRow(p)
    \/ \E p \in Workers, field \in TxnDistrictBatches : DistrictBulkValidate(p, field)
    \/ \E p \in Workers : DistrictBulkCommit(p)
    \/ \E data \in TreeDistrictData : DistrictCreate(data)
    \/ \E pk \in Pks : DistrictDestroy(pk)
    \/ PastorList(NoQuery)
    \/ SectionList
    \/ DistrictList

SpecTxn == Init /\ [][NextTxn]_vars

BulkOps == {"pastors.bulk_create", "sections.bulk_create", "districts.bulk_create"}

\* C2 as stated: in every state, whatever the other worker, a reader or a
\* failing INSERT did in between, the rows a bulk_create call (pastors,
\* sections, districts) has committed so far are none of its list or all of
\* it.
C2_AllOrNone ==
    \A p \in Workers :
        pc[p] # "idle" /\ loc[p].op \in BulkOps /\ loc[p].made # <<>> =>
            Len(loc[p].made) = Len(loc[p].arg.items)

-----------------------------------------------------------------------------
(* A pastor statistics request served query by query, beside writes served
   whole *)

StatusPatches == {[status |-> "active"], [status |-> "retired"]}
StatisticsWorkers == {1}

NextStats ==
    \/ \E p \in StatisticsWorkers : PastorStatisticsBegin(p)
    \/ \E p \in StatisticsWorkers : PastorStatisticsQuery(p)
    \/ \E data \in {JohnDoe, JaneSmith} : PastorCreate(data)
    \/ \E pk \in Pks : PastorDestroy(pk, NoQuery)
    \/ \E pk \in Pks, data \in StatusPatches : PastorPartialUpdate(pk, data, NoQuery)

SpecStats == Init /\ [][NextStats]_vars

\* The count a breakdown gives a value: 0 when it has no group of it.
RECURSIVE CountOf(_, _)
CountOf(groups, value) ==
    IF groups = <<>> THEN 0
    ELSE (IF groups[1].value = value THEN groups[1].count ELSE 0)
         + CountOf(Tail(groups), value)

\* C9 as stated: whatever pastor creates, deletes and status changes are
\* served between the queries of a statistics request, the total_pastors it
\* returns is the sum of the counts of its pastors_by_status, of its
\* pastors_by_rank and of its pastors_by_gender, and its active_pastors and
\* retired_pastors are the counts pastors_by_status gives 'active' and
\* 'retired'.
C9_ConsistentSnapshot ==
    \A p \in Workers :
        pc[p] = "done" /\ loc[p].op = "pastors.statistics" =>
            LET body == loc[p].body
            IN  /\ body.total_pastors = SumCounts(body.pastors_by_status)
                /\ body.total_pastors = SumCounts(body.pastors_by_rank)
                /\ body.total_pastors = SumCounts(body.pastors_by_gender)
                /\ body.active_pastors = CountOf(body.pastors_by_status, "active")
                /\ body.retired_pastors = CountOf(body.pastors_by_status, "retired")

-----------------------------------------------------------------------------
(* Pastor lists with filters *)

FilterQueries ==
    {NoQuery,
     [status |-> "active"], [status |-> "retired"], [status |-> "unknown"],
     [gender |-> "Male"], [pastor_rank |-> "Bishop"],
     [status |-> "active", gender |-> "Male"],
     [status |-> "retired", gender |-> "Male"],
     [status |-> "active", pastor_rank |-> "Reverend"],
     [status |-> "retired", pastor_rank |-> "Reverend"]}

NextFilter ==
    \/ \E data \in {JohnDoe, JaneSmith} : PastorCreate(data)
    \/ \E pk \in Pks : PastorDestroy(pk, NoQuery)
    \/ \E pk \in Pks, data \in StatusPatches : PastorPartialUpdate(pk, data, NoQuery)
    \/ \E q \in FilterQueries : PastorList(q)

SpecFilter == Init /\ [][NextFilter]_vars

\* The ids of the rows a list response returns.
ResultIds(results) == {results[i].id : i \in DOMAIN results}

\* C11: a pastors list with ?status=s (s a status), alone or with ?gender=g
\* or ?pastor_rank=r, is answered 200 with exactly the stored pastors, once
\* each, whose status is s and whose gender is g and whose pastor_rank is r,
\* for the filters given.
C11_FiltersIntersect ==
    last.op = "pastors.list" /\ PastorFiltersetErrors(last.arg) = {} =>
        /\ last.status = 200
        /\ Len(last.body.results) = Cardinality(ResultIds(last.body.results))
        /\ ResultIds(last.body.results) =
              {r.id : r \in {x \in db.pastors :
                  /\ "status" \in DOMAIN last.arg => x.status = last.arg.status
                  /\ "gender" \in DOMAIN last.arg => x.gender = last.arg.gender
                  /\ "pastor_rank" \in DOMAIN last.arg => x.pastor_rank = last.arg.pastor_rank}}
        /\ \A i \in DOMAIN last.body.results :
              last.body.results[i] \in {PastorRepr(x) : x \in db.pastors}

\* C11 witness: of an active male and a retired female pastor stored, the
\* list with ?status=retired&gender=Male returns none, and with
\* ?status=active&gender=Male the first.
C11_Witness ==
    /\ last.op = "pastors.list"
    /\ last.arg = [status |-> "retired", gender |-> "Male"]
    /\ last.body.results = <<>>
    /\ \E x \in db.pastors : x.status = "retired"
    /\ \E x \in db.pastors : x.gender = "Male"

-----------------------------------------------------------------------------
(* Pastors requests of authenticated and anonymous callers *)

AuthPastorData == {JohnDoe, JaneSmith, NoBirthDate}
AuthPatches == {[status |-> "retired"]}
AuthBatches == {NoField, ListField(<<JohnDoe>>)}

NextAuth ==
    \/ \E user \in Callers : PastorListAs(user, NoQuery)
    \/ \E user \in Callers, data \in AuthPastorData : PastorCreateAs(user, data)
    \/ \E user \in Callers, pk \in Pks : PastorDestroyAs(user, pk)
    \/ \E user \in Callers, pk \in Pks, data \in AuthPatches :
          PastorPartialUpdateAs(user, pk, data)
    \/ \E user \in Callers : PastorStatisticsAs(user)
    \/ \E user \in Callers, field \in AuthBatches : PastorBulkCreateAs(user, field)

SpecAuth == Init /\ [][NextAuth]_vars

\* A step that serves a pastors request of the anonymous caller.
AnonymousPastorRequest ==
    \/ PastorListAs(Anonymous, NoQuery)
    \/ \E data \in AuthPastorData : PastorCreateAs(Anonymous, data)
    \/ \E pk \in Pks : PastorDestroyAs(Anonymous, pk)
    \/ \E pk \in Pks, data \in AuthPatches : PastorPartialUpdateAs(Anonymous, pk, data)
    \/ PastorStatisticsAs(Anonymous)
    \/ \E field \in AuthBatches : PastorBulkCreateAs(Anonymous, field)

-----------------------------------------------------------------------------
(* Claims about the list a bulk_create is given *)

\* C13: a bulk_create (pastors, sections, districts) whose field is missing,
\* is no list or is the empty list is answered 400 with an error, and no row
\* of any table is created or changed.
C13_NotANonEmptyListRejected ==
    [][\A op \in BulkOps :
          /\ last'.op = op
          /\ (last'.arg.kind \in {"absent", "scalar"}
              \/ (last'.arg.kind = "list" /\ last'.arg.items = <<>>))
          => (/\ last'.status = 400
              /\ "error" \in DOMAIN last'.body
              /\ db' = db)]_vars

\* C13 witness (test_bulk_create_empty_list): with pastors stored, a pastors
\* bulk_create of the empty list was answered 400.
C13_Witness ==
    /\ db.pastors # {}
    /\ last.op = "pastors.bulk_create"
    /\ last.arg = ListField(<<>>)
    /\ last.status = 400
    /\ last.body = ErrorBody("pastors field must be a non-empty list")

\* Every table but t is left as it was.
OtherTablesUnchanged(t) == \A u \in Tables \ {t} : db'[u] = db[u]

\* The rows of a table that a step added, and those it left.
Added(t) == {r \in db'[t] : r.id \notin Ids(db[t])}

\* The response lists n representations, those of the n rows added to t.
MadeAre(t, n) ==
    /\ last'.status = 201
    /\ Len(last'.body.data) = n
    /\ Cardinality(Added(t)) = n
    /\ {last'.body.data[i].id : i \in DOMAIN last'.body.data} = Ids(Added(t))
    /\ Cardinality(db'[t]) = Cardinality(db[t]) + n
    /\ db[t] \subseteq db'[t]
    /\ OtherTablesUnchanged(t)

DistinctNames(items) ==
    \A i, j \in DOMAIN items : i # j => items[i].name # items[j].name

\* C14: a bulk_create of a list of N >= 1 items, every one valid (for
\* districts: at most MAX_BULK_CREATE of them, of names distinct from each
\* other), is answered 201 with N representations, those of N new rows of
\* the entity; the rows stored before are all kept and every other table is
\* unchanged.
C14_ValidBatchCreatesAll ==
    [][/\ (/\ BulkStep("pastors.bulk_create") /\ last'.arg.items # <<>>
           /\ ~PastorItemsInvalid(last'.arg.items))
          => MadeAre("pastors", Len(last'.arg.items))
       /\ (/\ BulkStep("sections.bulk_create") /\ last'.arg.items # <<>>
           /\ ~SectionItemsInvalid(last'.arg.items, db.districts))
          => MadeAre("sections", Len(last'.arg.items))
       /\ (/\ BulkStep("districts.bulk_create") /\ last'.arg.items # <<>>
           /\ Len(last'.arg.items) <= MAX_BULK_CREATE
           /\ ~DistrictItemsInvalid(last'.arg.items, db.districts)
           /\ DistinctNames(last'.arg.items))
          => MadeAre("districts", Len(last'.arg.items))]_vars

\* C14 witness (test_bulk_create_success): with a pastor stored, a pastors
\* bulk_create of two valid items was answered 201 with two representations
\* and three pastors are stored.
C14_Witness ==
    /\ last.op = "pastors.bulk_create" /\ last.status = 201
    /\ Len(last.arg.items) = 2
    /\ Len(last.body.data) = 2
    /\ Cardinality(db.pastors) = 3

-----------------------------------------------------------------------------
(* Assignments of pastors to churches *)

AssignPatches ==
    {[church |-> c] : c \in Pks} \cup {[pastor |-> q] : q \in Pks} \cup {[role |-> 2]}

NextAssign ==
    \/ DistrictCreate([name |-> "Nairobi"])
    \/ SectionCreate([name |-> "North", district |-> 1])
    \/ ChurchCreate([church_name |-> "Grace", section |-> 1])
    \/ \E data \in TreeRoleData : ChurchRoleCreate(data)
    \/ PastorCreate(JohnDoe)
    \/ \E data \in TreeAssignments : ChurchPastorCreate(data)
    \/ \E pk \in Pks, data \in TreeAssignments : ChurchPastorUpdate(pk, data)
    \/ \E pk \in Pks, data \in AssignPatches : ChurchPastorPartialUpdate(pk, data)
    \/ \E pk \in Pks : ChurchPastorDestroy(pk)

SpecAssign == Init /\ [][NextAssign]_vars

\* C15: whatever ChurchPastor creates, updates, partial updates and deletes
\* were served, no two stored ChurchPastor rows have the same church, pastor
\* and role.
C15_TripleUnique ==
    \A a, b \in db.churchPastors :
        a.id # b.id => <<a.church, a.pastor, a.role>> # <<b.church, b.pastor, b.role>>

\* C15 witness: with two assignments stored, an update or partial update of
\* one to the triple of the other was refused.
C15_Witness ==
    /\ Cardinality(db.churchPastors) = 2
    /\ last.op \in {"church-pastors.update", "church-pastors.partial_update"}
    /\ last.status = 400
    /\ last.body = FieldErrors({<<"non_field_errors", "unique">>})

-----------------------------------------------------------------------------
(* Requests addressed to one district or one pastor *)

DetailDistrictData == [name : DistrictNames \cup {""}]
DetailPastorData == {JohnDoe, JaneSmith, NoBirthDate} \cup StatusPatches

NextDetail ==
    \/ \E data \in DetailDistrictData : DistrictCreate(data)
    \/ \E pk \in Pks : DistrictRetrieve(pk)
    \/ \E pk \in Pks, data \in DetailDistrictData : DistrictUpdate(pk, data)
    \/ \E pk \in Pks, data \in DetailDistrictData : DistrictPartialUpdate(pk, data)
    \/ \E pk \in Pks : DistrictDestroy(pk)
    \/ \E data \in {JohnDoe, JaneSmith} : PastorCreate(data)
    \/ \E pk \in Pks : PastorRetrieve(pk, NoQuery)
    \/ \E pk \in Pks, data \in DetailPastorData : PastorUpdate(pk, data, NoQuery)
    \/ \E pk \in Pks, data \in DetailPastorData : PastorPartialUpdate(pk, data, NoQuery)
    \/ \E pk \in Pks : PastorDestroy(pk, NoQuery)

SpecDetail == Init /\ [][NextDetail]_vars

\* C16: a retrieve, update, partial update or delete of a district or of a
\* pastor whose primary key is in no stored row is answered 404 and leaves
\* every stored row as it was.
C16_MissingKeyNotFound ==
    [][/\ (/\ last'.op \in {"districts.retrieve", "districts.update",
                            "districts.partial_update", "districts.destroy"}
           /\ last'.arg.pk \notin Ids(db.districts))
          => (last'.status = 404 /\ last'.body = NotFound /\ db' = db)
       /\ (/\ last'.op \in {"pastors.retrieve", "pastors.update",
                            "pastors.partial_update", "pastors.destroy"}
           /\ last'.arg.pk \notin Ids(db.pastors))
          => (last'.status = 404 /\ last'.body = NotFound /\ db' = db)]_vars

\* C16 witness: with district 1 deleted and district 2 stored, a request to
\* district 1 was answered 404.
C16_Witness ==
    /\ Ids(db.districts) = {2}
    /\ last.op \in {"districts.update", "districts.partial_update", "districts.destroy",
                    "districts.retrieve"}
    /\ last.arg.pk = 1
    /\ last.status = 404

-----------------------------------------------------------------------------
(* Pastor payloads with fields outside their constraints *)

ShortPhone == PhonePrefix \o <<"1", "2", "3", "4", "5", "6", "7">>
LongPhone == PhonePrefix \o <<"1", "2", "3", "4", "5", "6", "7", "8", "9">>
ForeignPhone == <<"+", "2", "5", "5", "7", "1", "2", "3", "4", "5", "6", "7", "8">>
LetterPhone == PhonePrefix \o <<"1", "2", "3", "4", "5", "6", "7", "x">>
OtherPhone == PhonePrefix \o <<"0", "0", "0", "0", "0", "0", "0", "0">>

FieldPastorData ==
    {JohnDoe, JaneSmith, NoBirthDate,
     [JohnDoe EXCEPT !.status = "on_leave"],
     [JohnDoe EXCEPT !.gender = "Other"],
     [JohnDoe EXCEPT !.pastor_rank = "Deacon"],
     [JohnDoe EXCEPT !.phone_number = ShortPhone],
     [JohnDoe EXCEPT !.phone_number = ForeignPhone]}
FieldPastorPatches ==
    {[status |-> "suspended"], [status |-> "on_leave"], [gender |-> "Other"],
     [pastor_rank |-> "Deacon"], [pastor_rank |-> "Presbyter"],
     [phone_number |-> LongPhone], [phone_number |-> LetterPhone],
     [phone_number |-> OtherPhone], [phone_number |-> <<>>]}
FieldPastorBatches ==
    {ListField(<<JohnDoe, [JohnDoe EXCEPT !.phone_number = LetterPhone]>>),
     ListField(<<[JohnDoe EXCEPT !.status = "on_leave"], JaneSmith>>),
     ListField(<<JaneSmith, JohnDoe>>)}

NextFields ==
    \/ \E data \in FieldPastorData : PastorCreate(data)
    \/ \E pk \in Pks, data \in FieldPastorData : PastorUpdate(pk, data, NoQuery)
    \/ \E pk \in Pks, data \in FieldPastorPatches : PastorPartialUpdate(pk, data, NoQuery)
    \/ \E field \in FieldPastorBatches : PastorBulkCreate(field)
    \/ \E pk \in Pks : PastorDestroy(pk, NoQuery)

SpecFields == Init /\ [][NextFields]_vars

\* The constraints of a stored pastor's fields.
PastorFieldsOk(r) ==
    /\ r.status \in {"active", "suspended", "retired", "deceased"}
    /\ r.gender \in {"Male", "Female"}
    /\ r.pastor_rank \in {"ArchBishop", "Bishop", "Presbyter", "Reverend", "Pastor"}
    /\ Len(r.phone_number) = 13
    /\ SubSeq(r.phone_number, 1, 5) = <<"+", "2", "5", "4", "7">>
    /\ \A i \in 6..13 : r.phone_number[i] \in DigitChars

\* The payload of a create or PUT breaks a constraint or lacks a required
\* field; the payload of a PATCH breaks a constraint.
PayloadBad(data, partial) ==
    \/ ~partial /\ {"full_name", "gender", "pastor_rank", "date_of_birth", "phone_number"}
                       \ DOMAIN data # {}
    \/ "status" \in DOMAIN data /\ data.status \notin {"active", "suspended", "retired", "deceased"}
    \/ "gender" \in DOMAIN data /\ data.gender \notin {"Male", "Female"}
    \/ "pastor_rank" \in DOMAIN data
          /\ data.pastor_rank \notin {"ArchBishop", "Bishop", "Presbyter", "Reverend", "Pastor"}
    \/ "phone_number" \in DOMAIN data
          /\ ~(/\ Len(data.phone_number) = 13
               /\ SubSeq(data.phone_number, 1, 5) = <<"+", "2", "5", "4", "7">>
               /\ \A i \in 6..13 : data.phone_number[i] \in DigitChars)

\* The response is a 400 that names fields.
FieldLevel400 ==
    /\ last'.status = 400
    /\ "errors" \in DOMAIN last'.body

\* C17: after every create, update, partial update and bulk_create every
\* stored pastor has its status, gender and pastor_rank in their enumerated
\* sets and a phone_number of +2547 and exactly 8 digits; and a create or
\* update whose payload breaks one of these or lacks a required field (a
\* bulk_create with such an item) is answered 400 with field errors and
\* the database is unchanged.
C17_PastorFieldsValid ==
    [][/\ \A r \in db'.pastors : PastorFieldsOk(r)
       /\ (last'.op = "pastors.create" /\ PayloadBad(last'.arg, FALSE))
          => (FieldLevel400 /\ db' = db)
       /\ (/\ last'.op \in {"pastors.update", "pastors.partial_update"}
           /\ last'.arg.pk \in Ids(db.pastors)
           /\ PayloadBad(last'.arg.data, last'.op = "pastors.partial_update"))
          => (FieldLevel400 /\ db' = db)
       /\ (/\ last'.op = "pastors.bulk_create" /\ last'.arg.kind = "list"
           /\ \E i \in DOMAIN last'.arg.items : PayloadBad(last'.arg.items[i], FALSE))
          => (FieldLevel400 /\ db' = db)]_vars

\* C17 witness: a PATCH of a stored pastor's phone_number to a number with a
\* letter in it was answered 400 naming phone_number.
C17_Witness ==
    /\ last.op = "pastors.partial_update"
    /\ last.arg.data = [phone_number |-> LetterPhone]
    /\ last.arg.pk \in Ids(db.pastors)
    /\ last.status = 400
    /\ <<"phone_number", "invalid">> \in last.body.errors

-----------------------------------------------------------------------------
(* Summaries of pastors on days around their anniversaries *)

SummaryBirthDates == {Date(1970, 1, 1), Date(1980, 6, 15), Date(2000, 2, 29), Date(1990, 12, 31)}
SummaryServiceDates == {Date(2000, 1, 1), Date(2010, 6, 15), Date(2024, 6, 1), NoneDate}
SummaryPastors ==
    {[JohnDoe EXCEPT !.date_of_birth = b, !.start_of_service = s] :
        b \in SummaryBirthDates, s \in SummaryServiceDates}
    \cup {JaneSmith}
Todays ==
    {Date(2024, 6, 1), Date(2024, 6, 14), Date(2024, 6, 15), Date(2024, 2, 28),
     Date(2024, 2, 29), Date(2023, 2, 28), Date(2023, 3, 1), Date(2024, 12, 30),
     Date(2024, 12, 31), Date(2025, 1, 1), Date(2024, 1, 1)}

NextSummary ==
    \/ \E data \in SummaryPastors : PastorCreate(data)
    \/ \E pk \in Pks : PastorDestroy(pk, NoQuery)
    \/ \E pk \in Pks, today \in Todays : PastorSummary(pk, NoQuery, today)

SpecSummary == Init /\ [][NextSummary]_vars

\* Date a is the day of date b or an earlier day.
NotAfter(a, b) ==
    \/ a.y < b.y
    \/ a.y = b.y /\ a.m < b.m
    \/ a.y = b.y /\ a.m = b.m /\ a.d <= b.d

\* n whole years are completed from start on today: the n-th anniversary
\* (the month and day of start, n years on) is today or earlier and the
\* next one is later.
CompletedYears(start, today, n) ==
    /\ NotAfter(Date(start.y + n, start.m, start.d), today)
    /\ ~NotAfter(Date(start.y + n + 1, start.m, start.d), today)

\* C18: the summary of a pastor gives as age the whole years completed from
\* date_of_birth on the day of the request, a year counting once its month
\* and day are reached (born 1970-01-01, on 2024-06-01: 54), and as
\* years_of_service the same from start_of_service, or null when
\* start_of_service is unset.
C18_WholeYears ==
    last.op = "pastors.summary" /\ last.status = 200 =>
        LET pastor == Row(db.pastors, last.arg.pk)
            today == last.arg.today
        IN  /\ CompletedYears(pastor.date_of_birth, today, last.body.age)
            /\ (pastor.date_of_birth = Date(1970, 1, 1) /\ today = Date(2024, 6, 1)
                   => last.body.age = 54)
            /\ IF pastor.start_of_service = NoneDate
               THEN last.body.years_of_service = {}
               ELSE /\ Cardinality(last.body.years_of_service) = 1
                    /\ \A n \in last.body.years_of_service :
                          CompletedYears(pastor.start_of_service, today, n)

\* C18 witness: the summary, on the birthday 2024-06-15, of a pastor born
\* 1980-06-15 gives 44, and on the day before, of another request, 43.
C18_Witness ==
    /\ last.op = "pastors.summary" /\ last.status = 200
    /\ Row(db.pastors, last.arg.pk).date_of_birth = Date(1980, 6, 15)
    /\ last.arg.today = Date(2024, 6, 15)
    /\ last.body.age = 44

-----------------------------------------------------------------------------
(* Display identifiers of records whose keys have grown *)

\* Keys of one, two, three and four digits.
IdentKeys == {7, 12, 999, 1234}

\* A database after creations and deletions: each table holds the two rows
\* of keys j and k, and its sequence has passed them.
IdentDb(j, k) ==
    [districts |-> {DistrictRow(j, "Nairobi", 0), DistrictRow(k, "Kisumu", 0)},
     sections |-> {SectionRow(j, [district |-> j, name |-> "North"], 0),
                   SectionRow(k, [district |-> k, name |-> "North"], 0)},
     churches |-> {ChurchRow(j, [section |-> j, church_name |-> "Grace"], 0),
                   ChurchRow(k, [section |-> k, church_name |-> "Grace"], 0)},
     roles |-> {ChurchRoleRow(j, [role_name |-> "North"], 0),
                ChurchRoleRow(k, [role_name |-> "Grace"], 0)},
     pastors |-> {PastorRow(j, JohnDoe, 0), PastorRow(k, JaneSmith, 0)},
     churchPastors |-> {},
     seq |-> [t \in Tables |-> k + 1]]

InitIdent ==
    /\ \E j \in IdentKeys, k \in IdentKeys : j < k /\ db = IdentDb(j, k)
    /\ now = 0
    /\ last = NoRequest
    /\ pc = [p \in Workers |-> "idle"]
    /\ loc = [p \in Workers |-> NoLocals]

\* Payloads that also name the read-only fields.
IdentDistrictData ==
    {[name |-> "Nairobi"], [name |-> "North"],
     [name |-> "North", id |-> 7, district_id |-> <<"DIS", 0, 0, 7>>]}
IdentPastorPatches ==
    {[status |-> "retired"],
     [status |-> "active", id |-> 12, pastor_id |-> <<"PAS", 0, 1, 2>>]}

NextIdent ==
    \/ \E pk \in IdentKeys : DistrictRetrieve(pk)
    \/ \E pk \in IdentKeys, data \in IdentDistrictData : DistrictUpdate(pk, data)
    \/ \E pk \in IdentKeys, data \in IdentDistrictData : DistrictPartialUpdate(pk, data)
    \/ \E pk \in IdentKeys : PastorRetrieve(pk, NoQuery)
    \/ \E pk \in IdentKeys, data \in IdentPastorPatches : PastorPartialUpdate(pk, data, NoQuery)
    \/ \E pk \in IdentKeys : SectionRetrieve(pk)
    \/ \E pk \in IdentKeys : ChurchRetrieve(pk)

SpecIdent == InitIdent /\ [][NextIdent]_vars

\* The number a sequence of decimal digits writes.
RECURSIVE DigitsValue(_)
DigitsValue(ds) ==
    IF ds = <<>> THEN 0 ELSE 10 * DigitsValue(SubSeq(ds, 1, Len(ds) - 1)) + ds[Len(ds)]

\* ident is prefix followed by key written in decimal with at least three
\* digits, zeros in front only to make up the three.
IsIdent(ident, prefix, key) ==
    /\ Len(ident) >= 4
    /\ ident[1] = prefix
    /\ \A i \in 2..Len(ident) : ident[i] \in 0..9
    /\ DigitsValue(SubSeq(ident, 2, Len(ident))) = key
    /\ Len(ident) > 4 => ident[2] # 0

IdentsOk(d) ==
    /\ \A r \in d.pastors : IsIdent(pastor_id(r), "PAS", r.id)
    /\ \A r \in d.districts : IsIdent(district_id(r), "DIS", r.id)
    /\ \A r \in d.sections : IsIdent(section_id(r), "SEC", r.id)
    /\ \A r \in d.churches : IsIdent(church_id(r), "CHU", r.id)
    /\ \A r \in d.roles : IsIdent(role_id(r), "ROL", r.id)
    /\ \A r \in d.pastors : r.id = 7 => pastor_id(r) = <<"PAS", 0, 0, 7>>
    /\ \A r \in d.districts : r.id = 12 => district_id(r) = <<"DIS", 0, 1, 2>>

IdentsDistinct(d) ==
    /\ \A r, o \in d.pastors : r.id # o.id => pastor_id(r) # pastor_id(o)
    /\ \A r, o \in d.districts : r.id # o.id => district_id(r) # district_id(o)
    /\ \A r, o \in d.sections : r.id # o.id => section_id(r) # section_id(o)
    /\ \A r, o \in d.churches : r.id # o.id => church_id(r) # church_id(o)
    /\ \A r, o \in d.roles : r.id # o.id => role_id(r) # role_id(o)

\* The identifier a 200 response of a detail endpoint displays is the one
\* of the key in its URL.
Displayed(resp) ==
    /\ resp.op \in {"districts.retrieve", "districts.update", "districts.partial_update"}
         => /\ resp.body.data.id = resp.arg.pk
            /\ IsIdent(resp.body.data.district_id, "DIS", resp.arg.pk)
    /\ resp.op \in {"pastors.retrieve", "pastors.partial_update"}
         => /\ resp.body.data.id = resp.arg.pk
            /\ IsIdent(resp.body.data.pastor_id, "PAS", resp.arg.pk)
    /\ resp.op = "sections.retrieve"
         => /\ IsIdent(resp.body.data.section_id, "SEC", resp.arg.pk)
            /\ IsIdent(resp.body.data.district_details.district_id, "DIS",
                       resp.body.data.district)
    /\ resp.op = "churches.retrieve"
         => IsIdent(resp.body.data.church_id, "CHU", resp.arg.pk)

\* C19: the display identifier of a record is its entity's prefix (PAS,
\* DIS, SEC, CHU, ROL) followed by its key zero-padded to at least three
\* digits (Pastor 7: PAS007, District 12: DIS012); distinct keys of one
\* entity give distinct identifiers; an update, whatever its payload names
\* as id or identifier, leaves the keys and the identifier as they were.
C19_DisplayIdentifier ==
    [][/\ IdentsOk(db') /\ IdentsDistinct(db')
       /\ last'.status = 200 => Displayed(last')
       /\ (last'.op \in {"districts.update", "districts.partial_update"} /\ last'.status = 200)
            => /\ Ids(db'.districts) = Ids(db.districts)
               /\ last'.body.data.district_id = district_id(Row(db.districts, last'.arg.pk))
       /\ (last'.op = "pastors.partial_update" /\ last'.status = 200)
            => /\ Ids(db'.pastors) = Ids(db.pastors)
               /\ last'.body.data.pastor_id = pastor_id(Row(db.pastors, last'.arg.pk))]_vars

\* C19 witness: a PUT naming id 7 and DIS007 in its payload has renamed
\* district 1234, which is still displayed as DIS1234, beside District 12.
C19_Witness ==
    /\ last.op = "districts.update" /\ last.status = 200
    /\ Has(last.arg.data, "district_id")
    /\ last.arg.pk = 1234
    /\ last.body.data.district_id = <<"DIS", 1, 2, 3, 4>>
    /\ last.body.data.name = "North"
    /\ 12 \in Ids(db.districts)

-----------------------------------------------------------------------------
(* Lists in a requested order *)

\* Two sections whose names and whose districts' names are in opposite orders.
OrderSectionData == {[name |-> "North", district |-> 1], [name |-> "Grace", district |-> 2]}

\* No ordering, each allowed field both ways, and a field that is not allowed.
OrderingQueries(fields) ==
    {NoQuery, [ordering |-> Ascending("id")]}
    \cup {[ordering |-> Ascending(f)] : f \in fields}
    \cup {[ordering |-> Descending(f)] : f \in fields}
PastorOrderingQueries ==
    OrderingQueries(PastorOrderingFields)
    \cup {[gender |-> "Male", ordering |-> Descending("full_name")]}

NextOrder ==
    \/ \E data \in TreeDistrictData : DistrictCreate(data)
    \/ \E data \in OrderSectionData : SectionCreate(data)
    \/ \E data \in {JohnDoe, JaneSmith} : PastorCreate(data)
    \/ \E q \in PastorOrderingQueries : PastorList(q)
    \/ \E q \in OrderingQueries(DistrictOrderingFields) : DistrictListBy(q)
    \/ \E q \in OrderingQueries(SectionOrderingFields) : SectionListBy(q)
    \/ Tick

SpecOrder == Init /\ [][NextOrder]_vars

\* Value a of a column is value b or comes before it: dates by the calendar,
\* times by the clock, text by the collation.
ColumnLe(field, a, b) ==
    IF field \in {"date_of_birth", "start_of_service"} THEN NotAfter(a, b)
    ELSE IF field \in {"created_at", "updated_at"} THEN a <= b
    ELSE \E i, j \in DOMAIN Collation : i <= j /\ Collation[i] = a /\ Collation[j] = b

\* The column of a returned row a field of the query names.
Column(field) == IF field = "district__name" THEN "district_name" ELSE field

\* results are in the order the query asks for: by its field if allowed,
\* descending after "-", and by the default field, ascending, without an
\* ordering parameter.  (Rows with no value in the column have no place.)
InRequestedOrder(results, q, fields, default) ==
    (Has(q, "ordering") => q.ordering[Len(q.ordering)] \in fields) =>
        LET field == IF Has(q, "ordering") THEN q.ordering[Len(q.ordering)] ELSE default
            down == Has(q, "ordering") /\ Len(q.ordering) = 2 /\ q.ordering[1] = "-"
            column == Column(field)
            unset(row) == field = "start_of_service" /\ row[column] = NoneDate
        IN  \A i, j \in DOMAIN results :
                (i < j /\ ~unset(results[i]) /\ ~unset(results[j])) =>
                    IF down THEN ColumnLe(field, results[j][column], results[i][column])
                    ELSE ColumnLe(field, results[i][column], results[j][column])

\* results are the rows of ids, each once.
ReturnsRows(results, ids) ==
    /\ {results[i].id : i \in DOMAIN results} = ids
    /\ Len(results) = Cardinality(ids)

\* C20: a list with ordering=f, f an ordering field of the view, returns its
\* rows in ascending order of f, with ordering=-f in descending order, and
\* without the parameter in ascending order of full_name (pastors) or name
\* (districts, sections); whatever the parameter, the rows are those the
\* list returns without it.
C20_ListOrdering ==
    /\ (last.op = "pastors.list" /\ last.status = 200) =>
          /\ InRequestedOrder(last.body.results, last.arg, PastorOrderingFields, "full_name")
          /\ ReturnsRows(last.body.results,
                         {r.id : r \in {o \in db.pastors :
                                          Has(last.arg, "gender") => o.gender = last.arg.gender}})
    /\ last.op = "districts.list" =>
          /\ InRequestedOrder(last.body.results, last.arg, DistrictOrderingFields, "name")
          /\ ReturnsRows(last.body.results, Ids(db.districts))
    /\ last.op = "sections.list" =>
          /\ InRequestedOrder(last.body.results, last.arg, SectionOrderingFields, "name")
          /\ ReturnsRows(last.body.results, Ids(db.sections))

\* C20 witness: ordering=-full_name lists John Doe before Jane Smith.
C20_Witness ==
    /\ last.op = "pastors.list" /\ last.status = 200
    /\ last.arg = [ordering |-> Descending("full_name")]
    /\ Len(last.body.results) = 2
    /\ last.body.results[1].full_name = "John Doe"
    /\ last.body.results[2].full_name = "Jane Smith"

-----------------------------------------------------------------------------
(* What an update of a pastor changes *)

\* Patches of one and of two fields, one of them naming the read-only fields.
FramePastorPatches ==
    {[status |-> "suspended"],
     [full_name |-> "Grace", pastor_rank |-> "Presbyter"],
     [status |-> "retired", id |-> 2, pastor_id |-> <<"PAS", 0, 0, 2>>,
      created_at |-> 31, updated_at |-> 0],
     [status |-> "on_leave", full_name |-> "Grace"]}
FramePastorData ==
    {JaneSmith, [JohnDoe EXCEPT !.full_name = "Grace"] @@ [id |-> 2, created_at |-> 31]}

NextFrame ==
    \/ \E data \in {JohnDoe, JaneSmith} : PastorCreate(data)
    \/ \E pk \in Pks, data \in FramePastorData : PastorUpdate(pk, data, NoQuery)
    \/ \E pk \in Pks, data \in FramePastorPatches : PastorPartialUpdate(pk, data, NoQuery)
    \/ Tick

SpecFrame == Init /\ [][NextFrame]_vars

\* PastorSerializer.Meta.fields less read_only_fields.
PastorWritable ==
    {"full_name", "gender", "pastor_rank", "national_id", "date_of_birth", "phone_number",
     "start_of_service", "status"}

\* A step serving the PUT or PATCH op answered 200.
Updated(op) == now' = now /\ last'.op = op /\ last'.status = 200

\* The step replaced the pastor of the request by a row that differs from it
\* at most in the columns of changing, every field the request holds among
\* PastorWritable having the request's value; no other row of any table
\* changed.
PastorFrame(changing) ==
    LET pk == last'.arg.pk
        data == last'.arg.data
        old == Row(db.pastors, pk)
        new == Row(db'.pastors, pk)
    IN  /\ pk \in Ids(db.pastors) /\ pk \in Ids(db'.pastors)
        /\ db'.pastors \ {new} = db.pastors \ {old}
        /\ OtherTablesUnchanged("pastors")
        /\ \A k \in PastorWritable : Has(data, k) => new[k] = data[k]
        /\ \A k \in DOMAIN old : k \notin changing => new[k] = old[k]
        /\ pastor_id(new) = pastor_id(old)
        /\ last'.body.data.pastor_id = pastor_id(old)

\* C21 as stated: a PATCH changes exactly the writable fields present in
\* the request and leaves every other field of the pastor and every other
\* row unchanged.
C21_AsStated ==
    [][Updated("pastors.partial_update") =>
          PastorFrame(PastorWritable \cap DOMAIN last'.arg.data)]_vars

\* C21: a PATCH sets the writable fields present in the request and
\* updated_at, which takes the time of the update, and leaves every other
\* field of the pastor, its id, pastor_id and created_at, and every other
\* row unchanged; a PUT never changes id, pastor_id or created_at; an update
\* not answered 200 changes nothing.
C21_PatchFrame ==
    [][/\ Updated("pastors.partial_update") =>
             /\ PastorFrame((PastorWritable \cap DOMAIN last'.arg.data) \cup {"updated_at"})
             /\ Row(db'.pastors, last'.arg.pk).updated_at = now
       /\ Updated("pastors.update") => PastorFrame(PastorWritable \cup {"updated_at"})
       /\ (/\ now' = now
           /\ last'.op \in {"pastors.update", "pastors.partial_update"}
           /\ last'.status # 200) => db' = db]_vars

\* C21 witness: a day after its creation, a PATCH of status alone has
\* answered 200 for a pastor that keeps its created_at and whose updated_at
\* is the day of the PATCH.
C21_Witness ==
    /\ last.op = "pastors.partial_update" /\ last.status = 200
    /\ last.arg.data = [status |-> "suspended"]
    /\ last.body.data.status = "suspended"
    /\ last.body.data.full_name = "John Doe"
    /\ last.body.data.created_at = 0
    /\ last.body.data.updated_at = TickDays
    /\ Cardinality(db.pastors) = 2

-----------------------------------------------------------------------------
(* Districts bulk_create of names that collide *)

\* Two items of the list have one name, or an item has the name of a
\* stored district.
NamesCollide(items, rows) ==
    \/ \E i, j \in DOMAIN items : i # j /\ items[i].name = items[j].name
    \/ \E i \in DOMAIN items : \E r \in rows : r.name = items[i].name

\* C22: a districts bulk_create of a list in which two items have the same
\* name, or an item has the name of a stored district, is answered 400 and
\* the stored districts, and every other row, are those stored before the
\* call: what was saved before the constraint failed is rolled back.
C22_CollidingBatchStoresNothing ==
    [][(/\ BulkStep("districts.bulk_create") /\ last'.arg.items # <<>>
        /\ NamesCollide(last'.arg.items, db.districts))
       => (last'.status = 400 /\ db'.districts = db.districts /\ db' = db)]_vars

\* C22 witness: a list of two items of one name, which no stored district
\* has, passed validation, failed on the unique index at its second INSERT
\* and was answered 400; no district of that name is stored.
C22_Witness ==
    /\ last.op = "districts.bulk_create" /\ last.status = 400
    /\ last.arg.kind = "list" /\ Len(last.arg.items) = 2
    /\ last.arg.items[1].name = last.arg.items[2].name
    /\ last.body = ErrorBody("Duplicate district name or database constraint violation")
    /\ \A r \in db.districts : r.name # last.arg.items[1].name

-----------------------------------------------------------------------------
(* References between the tables under creates, updates and deletes *)

\* Payloads naming each key a parent can have, stored or not.
RefSectionPatches == {[district |-> pk] : pk \in Pks}
RefChurchPatches == {[section |-> pk] : pk \in Pks}
RefAssignments == {[church |-> c, pastor |-> 1, role |-> 1] : c \in Pks}
RefAssignPatches == {[church |-> c] : c \in Pks} \cup {[pastor |-> 2], [role |-> 2]}

NextRefs ==
    \/ DistrictCreate([name |-> "Nairobi"])
    \/ \E data \in TreeSectionData : SectionCreate(data)
    \/ \E data \in TreeChurchData : ChurchCreate(data)
    \/ \E data \in TreeRoleData : ChurchRoleCreate(data)
    \/ PastorCreate(JohnDoe)
    \/ \E data \in RefAssignments : ChurchPastorCreate(data)
    \/ \E pk \in Pks, data \in RefSectionPatches : SectionPartialUpdate(pk, data)
    \/ \E pk \in Pks, data \in RefChurchPatches : ChurchPartialUpdate(pk, data)
    \/ \E pk \in Pks, data \in RefAssignPatches : ChurchPastorPartialUpdate(pk, data)
    \/ \E pk \in Pks : DistrictDestroy(pk)
    \/ \E pk \in Pks : SectionDestroy(pk)
    \/ \E pk \in Pks : ChurchDestroy(pk)
    \/ \E pk \in Pks : ChurchRoleDestroy(pk)
    \/ \E pk \in Pks : PastorDestroy(pk, NoQuery)
    \/ \E pk \in Pks : ChurchPastorDestroy(pk)

SpecRefs == Init /\ [][NextRefs]_vars

\* Exactly one row of rows has the key.
OneParent(rows, key) == Cardinality({r \in rows : r.id = key}) = 1

\* C23: in every state that creates, updates and deletes of districts,
\* sections, churches, church roles, pastors and church pastors reach, every
\* section references one stored district, every church one stored section,
\* and every church pastor one stored church, one stored pastor and one
\* stored church role.
C23_NoDanglingReference ==
    /\ \A x \in db.sections : OneParent(db.districts, x.district)
    /\ \A c \in db.churches : OneParent(db.sections, c.section)
    /\ \A a \in db.churchPastors :
          /\ OneParent(db.churches, a.church)
          /\ OneParent(db.pastors, a.pastor)
          /\ OneParent(db.roles, a.role)

\* C23 witness: the delete of a section took its church and the assignment
\* to that church with it; the church of the other section and the
\* assignment to it are still stored.
C23_Witness ==
    /\ last.op = "sections.destroy" /\ last.status = 204
    /\ db.seq.churches = 3 /\ Cardinality(db.churches) = 1
    /\ db.seq.churchPastors = 3 /\ Cardinality(db.churchPastors) = 1
    /\ Cardinality(db.sections) = 1

-----------------------------------------------------------------------------
(* The sections of a district *)

\* Values of the district_id parameter: the keys that districts can have,
\* text that is no integer, and integers written with a sign or spaces.
DistrictIdTexts ==
    {<<"1">>, <<"2">>, <<"3">>, <<>>, <<"a", "b", "c">>, <<"1", ".", "5">>,
     <<"-", "1">>, <<" ", "2">>, <<"0", "1">>, <<"1", "a">>}
DistrictIdQueries == {NoQuery} \cup {[district_id |-> text] : text \in DistrictIdTexts}

\* The integer each of them writes, for those that write one.
WrittenInteger ==
    (<<"1">> :> 1) @@ (<<"2">> :> 2) @@ (<<"3">> :> 3) @@ (<<"-", "1">> :> 0 - 1)
    @@ (<<" ", "2">> :> 2) @@ (<<"0", "1">> :> 1)

BySectionData == {[name |-> n, district |-> pk] : n \in {"North", "Grace"}, pk \in Pks}

NextByDistrict ==
    \/ \E data \in TreeDistrictData : DistrictCreate(data)
    \/ \E data \in BySectionData : SectionCreate(data)
    \/ \E pk \in Pks : DistrictDestroy(pk)
    \/ \E pk \in Pks : SectionDestroy(pk)
    \/ \E q \in DistrictIdQueries : by_district(q)

SpecByDistrict == Init /\ [][NextByDistrict]_vars

\* C24: by_district answers 400 without district_id, 400 when district_id
\* is not an integer, 404 when no district has that key; otherwise 200 with
\* the sections of that district, each once, and their number as count; it
\* leaves the stored rows as they were.
C24_ByDistrict ==
    [][last'.op = "sections.by_district" =>
          LET q == last'.arg
          IN  /\ db' = db
              /\ ~Has(q, "district_id") => last'.status = 400
              /\ (Has(q, "district_id") /\ q.district_id \notin DOMAIN WrittenInteger)
                    => last'.status = 400
              /\ (Has(q, "district_id") /\ q.district_id \in DOMAIN WrittenInteger) =>
                    LET key == WrittenInteger[q.district_id]
                        found == last'.body.sections
                    IN  IF \A r \in db.districts : r.id # key
                        THEN last'.status = 404
                        ELSE /\ last'.status = 200
                             /\ {found[i].id : i \in DOMAIN found}
                                   = {x.id : x \in {y \in db.sections : y.district = key}}
                             /\ \A i, j \in DOMAIN found : found[i].id = found[j].id => i = j
                             /\ last'.body.count = Len(found)]_vars

\* C24 witness: district 2 has one of the two stored sections and
\* by_district of " 2" has returned it with count 1.
C24_Witness ==
    /\ last.op = "sections.by_district" /\ last.status = 200
    /\ last.arg = [district_id |-> <<" ", "2">>]
    /\ last.body.count = 1
    /\ last.body.sections[1].district = 2
    /\ Cardinality(db.sections) = 2

-----------------------------------------------------------------------------
(* Detail requests on pastors with rank, status or gender in the query *)

\* Queries of one parameter: values that pastors have, and values that are
\* no choice of the field.
ScopeQueries ==
    {NoQuery, [status |-> "active"], [status |-> "retired"], [gender |-> "Female"],
     [rank |-> "Bishop"], [rank |-> "Deacon"], [status |-> "on_leave"], [gender |-> "Other"]}
ScopeToday == Date(2024, 6, 1)

NextScope ==
    \/ \E data \in {JohnDoe, JaneSmith} : PastorCreate(data)
    \/ \E pk \in Pks, q \in ScopeQueries : PastorRetrieve(pk, q)
    \/ \E pk \in Pks, q \in ScopeQueries : PastorUpdate(pk, JohnDoe, q)
    \/ \E pk \in Pks, q \in ScopeQueries : PastorPartialUpdate(pk, [status |-> "suspended"], q)
    \/ \E pk \in Pks, q \in ScopeQueries : PastorDestroy(pk, q)
    \/ \E pk \in Pks, q \in ScopeQueries : PastorSummary(pk, q, ScopeToday)

SpecScope == Init /\ [][NextScope]_vars

PastorDetailOps ==
    {"pastors.retrieve", "pastors.update", "pastors.partial_update", "pastors.destroy",
     "pastors.summary"}

\* The query gives a status, gender or rank that is not the row's.
Differs(row, q) ==
    \/ Has(q, "status") /\ q.status # row.status
    \/ Has(q, "gender") /\ q.gender # row.gender
    \/ Has(q, "rank") /\ q.rank # row.pastor_rank

\* The query gives a status or gender that is no choice of the field.
NoChoice(q) ==
    \/ Has(q, "status") /\ q.status \notin {"active", "suspended", "retired", "deceased"}
    \/ Has(q, "gender") /\ q.gender \notin {"Male", "Female"}

\* The step served a detail request on a stored pastor.
DetailStep == last'.op \in PastorDetailOps /\ last'.arg.pk \in Ids(db.pastors)

-----------------------------------------------------------------------------
(* A district statistics request served query by query, beside creates and
   deletes served whole *)

NextDistrictStats ==
    \/ \E p \in StatisticsWorkers : DistrictStatisticsBegin(p)
    \/ \E p \in StatisticsWorkers : DistrictStatisticsNames(p)
    \/ \E data \in TreeDistrictData : DistrictCreate(data)
    \/ \E pk \in Pks : DistrictDestroy(pk)
    \/ Tick

SpecDistrictStats == Init /\ [][NextDistrictStats]_vars

\* C26: whatever district creates and deletes are served between the two
\* queries of a district statistics request, the recent_districts it returns
\* is at most its total_districts, and its oldest_district and
\* newest_district are both null when its total_districts is 0 and both
\* names when it is not.
C26_TotalsAndNames ==
    \A p \in Workers :
        pc[p] = "done" /\ loc[p].op = "districts.statistics" =>
            LET body == loc[p].body
            IN  /\ body.recent_districts <= body.total_districts
                /\ body.total_districts = 0
                      => (body.oldest_district = Null /\ body.newest_district = Null)
                /\ body.total_districts # 0
                      => (body.oldest_district # Null /\ body.newest_district # Null)

====
